---- MODULE Spec2Model ----
(***************************************************************************)
(* Model of the eBPF assembler Block (package asm): instruction encoding,  *)
(* label / fix-up resolution, reachability elision and trampoline          *)
(* injection.                                                              *)
(*                                                                         *)
(* Representation.  Block.insns ([]Insn) is held as the pair               *)
(* (insnsLen, insns): insnsLen is len(b.insns) and insns maps an index to  *)
(* the 8 bytes of the instruction stored there (a tuple, bytes 0..7 of the *)
(* Go array are elements 1..8).  An index below insnsLen that is absent    *)
(* from DOMAIN insns holds the instruction NoOp() appends,                 *)
(* MakeInsn(Mov64, R0, R0, 0, 0); such an instruction is never stored      *)
(* explicitly, so equal programs are equal states.  This keeps programs of *)
(* more than MaxInt16 instructions small enough to explore.                *)
(*                                                                         *)
(* Labels.  A caller label is a number 1..n standing for a name whose      *)
(* lexicographic order is the numeric order ("L001", "L002", ...); the     *)
(* synthetic label "skip-trampoline-<k>" is the number -(k+1).  The empty  *)
(* label "" (no fix-up) is NoLabel.                                        *)
(*                                                                         *)
(* Debug metadata.  The Annotation, Labels and Comments fields of Insn are *)
(* held apart from the 8 bytes, as maps from the instruction's index       *)
(* (insnAnnotation, insnLabels, insnComments); an absent index holds the   *)
(* empty value.  Spec, SpecLong and SpecMany start from NewBlock(false);   *)
(* SpecDebug starts from either Block and adds AddComment.                 *)
(*                                                                         *)
(* Specifications.  Spec: short programs, exhaustively.  SpecLong: one run *)
(* of MaxInt16 NoOp() calls.  SpecMany: about trampolineHeadroom labels    *)
(* up to the first trampoline.  SpecFar: trampolineHeadroom labels past    *)
(* two trampolines.  SpecDebug: debug metadata.  SpecWide: single calls    *)
(* with arguments over their whole ranges.  SpecStride: stride changes at  *)
(* any point.  SpecReserve: capacity reserved at any point.  SpecTwin: a   *)
(* second Block, trampolines disabled, given the same calls.               *)
(***************************************************************************)
EXTENDS Integers, Sequences, FiniteSets, TLC

\* ------------------------------------------------------------------ bounds

\* Instruction-emitting builder calls the caller makes in Spec.
MaxCalls == 2
\* LabelNextInsn calls the caller makes in Spec.
MaxBinds == 1
\* The same for the longer programs of SpecDeep and SpecReserve.
MaxDeepCalls == 3
MaxDeepBinds == 2

\* ------------------------------------------------------- program constants

MaxInt16 == 32767
MinInt16 == -32768
trampolineHeadroom == 100
\* Faulty variant (C2 must notice it): no room left for the trampoline itself.
TrampolineStrideDefault_NoHeadroom == MaxInt16
TrampolineStrideDefault == MaxInt16 - trampolineHeadroom
StrideLimit == 16384
InstructionSize == 8

R0 == 0
R1 == 1
RPseudoMapFD == 1

OpClassLoadImm == 0
OpClassJump64 == 5
OpClassJump32 == 6
OpClassALU64 == 7
OpClassMask == 7
MemOpModeImm == 0
MemOpSize64 == 24
ALUOpMov == 176
ALUSrcImm == 0
ALUSrcReg == 8
JumpOpA == 0
JumpOpEq == 16
JumpOpCall == 128
JumpOpExit == 144

\* ---------------------------------------------------------- bit arithmetic

RECURSIVE BitOr(_, _)
\* a | b on non-negative integers.
BitOr(a, b) ==
    IF a = 0 THEN b
    ELSE IF b = 0 THEN a
    ELSE (IF a % 2 = 1 \/ b % 2 = 1 THEN 1 ELSE 0) + 2 * BitOr(a \div 2, b \div 2)

RECURSIVE BitAnd(_, _)
\* a & b on non-negative integers.
BitAnd(a, b) ==
    IF a = 0 \/ b = 0 THEN 0
    ELSE (IF a % 2 = 1 /\ b % 2 = 1 THEN 1 ELSE 0) + 2 * BitAnd(a \div 2, b \div 2)

\* Go's conversions of an integer to an unsigned / signed fixed width.
ToUint8(x) == x % 256
ToUint16(x) == x % 65536
ToInt8(u) == IF u >= 128 THEN u - 256 ELSE u
ToInt16(u) == IF u >= 32768 THEN u - 65536 ELSE u

\* ----------------------------------------------------------------- opcodes

Mov64 == BitOr(BitOr(OpClassALU64, ALUSrcReg), ALUOpMov)
LoadImm64 == BitOr(BitOr(OpClassLoadImm, MemOpModeImm), MemOpSize64)
LoadImm64Pt2 == 0
JumpEq64 == BitOr(BitOr(OpClassJump64, ALUSrcReg), JumpOpEq)
JumpEq32 == BitOr(BitOr(OpClassJump32, ALUSrcReg), JumpOpEq)
JumpA == BitOr(BitOr(OpClassJump64, ALUSrcImm), JumpOpA)
Call == BitOr(BitOr(OpClassJump64, ALUSrcImm), JumpOpCall)
Exit == BitOr(BitOr(OpClassJump64, ALUSrcImm), JumpOpExit)

\* ------------------------------------------------------------ instructions

\* binary.LittleEndian.PutUint16 / Uint16 on a uint16.
PutUint16(v) == <<v % 256, v \div 256>>
Uint16(lo, hi) == lo + 256 * hi
\* binary.LittleEndian.PutUint32(bs, uint32(imm)) of an int32 imm: the four bytes of
\* its two's complement (a uint32 itself is beyond the checker's integers).
PutInt32(imm) ==
    <<imm % 256, (imm \div 256) % 256, (imm \div 65536) % 256, (imm \div 16777216) % 256>>
\* int32(binary.LittleEndian.Uint32(bs)).
Int32Of(b0, b1, b2, b3) == b0 + 256 * b1 + 65536 * b2 + 16777216 * ToInt8(b3)

\* Faulty variant (C23 must notice it): the offset written high byte first.
MakeInsn_BigEndianOffset(opcode, dst, src, offset, imm) ==
    <<ToUint8(opcode), ToUint8(BitOr(src * 16, dst)),
      ToUint16(offset) \div 256, ToUint16(offset) % 256>> \o PutInt32(imm)
MakeInsn(opcode, dst, src, offset, imm) ==
    <<ToUint8(opcode), ToUint8(BitOr(src * 16, dst))>>
        \o PutUint16(ToUint16(offset)) \o PutInt32(imm)

OpCode(n) == n[1]
Dst(n) == BitAnd(n[2], 15)
Src(n) == BitAnd(n[2] \div 16, 15)
Off(n) == ToInt16(Uint16(n[3], n[4]))
Imm(n) == Int32Of(n[5], n[6], n[7], n[8])
OpClass(n) == BitAnd(OpCode(n), OpClassMask)

\* The instruction NoOp() appends: Mov64(R0, R0).
NoOpInsn == MakeInsn(Mov64, R0, R0, 0, 0)

\* ------------------------------------------------------------------ labels

NoLabel == 0
SkipLabel(k) == -(k + 1)
IsSkipLabel(l) == l < 0

\* sort.Strings order of two label names: caller names ("L...") sort before
\* "skip-trampoline-<k>", caller names among themselves by number, the
\* skip names by k (lexicographic order for k < 10).
LabelLess(a, c) ==
    IF IsSkipLabel(a) = IsSkipLabel(c)
    THEN (IF IsSkipLabel(a) THEN a > c ELSE a < c)
    ELSE IsSkipLabel(c)

\* The labels of S as a sequence in sort.Strings order.
SortLabels(S) ==
    [i \in 1..Cardinality(S) |->
        CHOOSE x \in S : Cardinality({y \in S : LabelLess(y, x)}) = i - 1]

\* ------------------------------------------------------------------ errors

NoErr == [kind |-> "none"]
\* Faulty variant (C10 must notice it): a missing label is not reported.
MissingLabelErr_Unreported(l) == NoErr
\* fmt.Errorf("missing label: %s", targetLabel)
MissingLabelErr(l) == [kind |-> "missing", label |-> l]
\* Faulty variant (C11 must notice it): the self-jump reported as a range error.
SameInsnErr_AsRange(l, o) == [kind |-> "range", label |-> l, offset |-> o]
SameInsnErr(l, o) == [kind |-> "same", label |-> l, offset |-> o]
RangeErr(l, o) == [kind |-> "range", label |-> l, offset |-> o]
\* fmt.Errorf("failed to apply fix-ups when adding label %q @ %d: %w", ...)
DeferredErr(l, at, e) == [kind |-> "deferred", label |-> l, at |-> at, cause |-> e]

\* ------------------------------------------------------------- map helpers

MapGet(m, k, default) == IF k \in DOMAIN m THEN m[k] ELSE default
MapPut(m, k, v) == [x \in DOMAIN m \cup {k} |-> IF x = k THEN v ELSE m[x]]
MapDelete(m, k) == [x \in DOMAIN m \ {k} |-> m[x]]
SeqToSet(s) == {s[i] : i \in 1..Len(s)}

\* TRUE of every value.  TLC computes v to decide it, so a loop written as
\* "LET b1 == first part IN IF Evaluated(b1) THEN rest(b1) ELSE b1" has its
\* iterations computed one after the other, as the program runs them.
Evaluated(v) == v = v

\* ------------------------------------------------------------------- state

VARIABLES
    \* Block fields.
    insns, insnsLen, fixUps, labelToInsnIdx, insnIdxToLabels, inUseJumpTargets,
    insnIdxToComments, policyDebugEnabled,
    \* The Annotation, Labels and Comments fields of the instructions: index -> value.
    insnAnnotation, insnLabels, insnComments,
    trampolinesEnabled, trampolineIdx, lastTrampolineAddr, deferredErr, NumJumps,
    trampolineStride,
    \* What Assemble() returned, once it has been called.
    result,
    \* History (not read by any operation of the Block).
    meta,         \* index of a label-taking jump -> [tgt: its label, syn: who emitted
                  \* it, to: where the label was bound then]
    fixLog,       \* every offset applyFixUps computed: [idx, label, target, offset, ok]
    maxOut,       \* most labels outstanding at any trampoline written so far
    pt2Deferred,  \* a trampoline point was passed over for a LoadImm64Pt2
    emitLog,      \* what each addInsnWithOffsetFixupNoTrampoline call found and did
    callerLen,    \* the number of the caller's instructions that were appended
    callerInsns,  \* those instructions as the caller passed them, in call order
    callerBinds,  \* caller label -> the indices the caller bound it at, in call order
    backRef,      \* the caller emitted a jump to a label it had already bound
    everDisabled, \* trampolines were switched off at some point
    emitCalls,    \* single instruction-emitting builder calls made so far
    runs,         \* runs of NoOp() calls made so far (SpecLong, SpecMany)
    lastCall,     \* the latest call recorded of the caller (SpecWide, SpecStride)
    twin,         \* the Block given the same calls with trampolines disabled (SpecTwin)
    budget        \* the calls the caller will make: [calls: instruction-emitting
                  \* ones, binds: LabelNextInsn ones]

blockVars == <<insns, insnsLen, fixUps, labelToInsnIdx, insnIdxToLabels,
               inUseJumpTargets, trampolinesEnabled, trampolineIdx,
               lastTrampolineAddr, deferredErr, NumJumps, trampolineStride,
               meta, fixLog, maxOut, pt2Deferred, emitLog, callerLen, callerInsns,
               insnIdxToComments, policyDebugEnabled,
               insnAnnotation, insnLabels, insnComments>>
histVars == <<callerBinds, backRef, everDisabled, emitCalls, runs>>
vars == <<blockVars, result, histVars, lastCall, twin, budget>>

\* The Block as one value, for the operators below.
Blk ==
    [insns |-> insns, insnsLen |-> insnsLen, fixUps |-> fixUps,
     labelToInsnIdx |-> labelToInsnIdx, insnIdxToLabels |-> insnIdxToLabels,
     inUseJumpTargets |-> inUseJumpTargets, trampolinesEnabled |-> trampolinesEnabled,
     trampolineIdx |-> trampolineIdx, lastTrampolineAddr |-> lastTrampolineAddr,
     deferredErr |-> deferredErr, NumJumps |-> NumJumps,
     trampolineStride |-> trampolineStride,
     meta |-> meta, fixLog |-> fixLog, maxOut |-> maxOut, pt2Deferred |-> pt2Deferred,
     emitLog |-> emitLog, callerLen |-> callerLen, callerInsns |-> callerInsns,
     insnIdxToComments |-> insnIdxToComments, policyDebugEnabled |-> policyDebugEnabled,
     insnAnnotation |-> insnAnnotation, insnLabels |-> insnLabels,
     insnComments |-> insnComments]

Commit(b) ==
    /\ insns' = b.insns
    /\ insnsLen' = b.insnsLen
    /\ fixUps' = b.fixUps
    /\ labelToInsnIdx' = b.labelToInsnIdx
    /\ insnIdxToLabels' = b.insnIdxToLabels
    /\ inUseJumpTargets' = b.inUseJumpTargets
    /\ trampolinesEnabled' = b.trampolinesEnabled
    /\ trampolineIdx' = b.trampolineIdx
    /\ lastTrampolineAddr' = b.lastTrampolineAddr
    /\ deferredErr' = b.deferredErr
    /\ NumJumps' = b.NumJumps
    /\ trampolineStride' = b.trampolineStride
    /\ meta' = b.meta
    /\ fixLog' = b.fixLog
    /\ maxOut' = b.maxOut
    /\ pt2Deferred' = b.pt2Deferred
    /\ emitLog' = b.emitLog
    /\ callerLen' = b.callerLen
    /\ callerInsns' = b.callerInsns
    /\ insnIdxToComments' = b.insnIdxToComments
    /\ policyDebugEnabled' = b.policyDebugEnabled
    /\ insnAnnotation' = b.insnAnnotation
    /\ insnLabels' = b.insnLabels
    /\ insnComments' = b.insnComments

\* NewBlock(false).
NewBlock ==
    [insns |-> <<>>, insnsLen |-> 0, fixUps |-> <<>>, labelToInsnIdx |-> <<>>,
     insnIdxToLabels |-> <<>>, inUseJumpTargets |-> {}, trampolinesEnabled |-> TRUE,
     trampolineIdx |-> 0, lastTrampolineAddr |-> 0, deferredErr |-> NoErr,
     NumJumps |-> 0, trampolineStride |-> TrampolineStrideDefault,
     meta |-> <<>>, fixLog |-> {}, maxOut |-> 0, pt2Deferred |-> FALSE,
     emitLog |-> {}, callerLen |-> 0, callerInsns |-> <<>>,
     insnIdxToComments |-> <<>>, policyDebugEnabled |-> FALSE,
     insnAnnotation |-> <<>>, insnLabels |-> <<>>, insnComments |-> <<>>]

\* NewBlock(policyDebugEnabled).
NewBlockDebug(debug) == [NewBlock EXCEPT !.policyDebugEnabled = debug]

\* ------------------------------------------------------ instruction buffer

\* b.insns[i].
InsnAt(b, i) == IF i \in DOMAIN b.insns THEN b.insns[i] ELSE NoOpInsn

\* b.insns[i] = insn.
StoreInsn(b, i, insn) ==
    [b EXCEPT !.insns = IF insn = NoOpInsn THEN MapDelete(@, i) ELSE MapPut(@, i, insn)]

\* b.insns = append(b.insns, insn).
AppendInsn(b, insn) ==
    [StoreInsn(b, b.insnsLen, insn) EXCEPT !.insnsLen = @ + 1]

\* Faulty variant (C32 must notice it): the offset written one byte early, over
\* the register byte.
PatchOffset_OneByteEarly(insn, offset) ==
    LET bs == PutUint16(ToUint16(offset))
    IN  [insn EXCEPT ![2] = bs[1], ![3] = bs[2]]
\* Insn{}, the value make() gives every element.
ZeroInsn == <<0, 0, 0, 0, 0, 0, 0, 0>>
\* make(Insns, n, capacity): index -> instruction, every index present.
MakeInsns(n) == [i \in 0..(n - 1) |-> ZeroInsn]

\* Faulty variant (C33 must notice it): nothing is copied.
CopyInsns_Nothing(dst, b) == dst
\* copy(dst, b.insns): the elements both hold, taken from b.insns.
CopyInsns(dst, b) ==
    [i \in DOMAIN dst |-> IF i < b.insnsLen THEN InsnAt(b, i) ELSE dst[i]]

\* b.ReserveInstructionCapacity(n), cap(b.insns) being capacity: the new slice
\* takes the place of b.insns (held sparsely again, see Representation).
BlockReserveInstructionCapacity(b, n, capacity) ==
    IF capacity >= n THEN b
    ELSE LET newInsns == CopyInsns(MakeInsns(b.insnsLen), b)
         IN  [b EXCEPT
                 !.insns = [i \in {j \in DOMAIN newInsns : newInsns[j] # NoOpInsn}
                               |-> newInsns[i]],
                 !.insnsLen = Cardinality(DOMAIN newInsns)]

\* binary.LittleEndian.PutUint16(insn.Instruction[2:4], uint16(offset)).
PatchOffset(insn, offset) ==
    LET bs == PutUint16(ToUint16(offset))
    IN  [insn EXCEPT ![3] = bs[1], ![4] = bs[2]]

\* ---------------------------------------------------------------- fix-ups

\* Faulty variant (C1 must notice it): the offset counted from the jump itself.
FixUpOffset_FromJump(labelIdx, origInsnIdx) == labelIdx - origInsnIdx
\* offset := labelIdx - f.origInsnIdx - 1
FixUpOffset(labelIdx, origInsnIdx) == labelIdx - origInsnIdx - 1

\* Faulty variants: the self-jump test left out (C8 must notice it), and the test
\* made against the next instruction instead (C9 must notice it).
JumpsToSameInsn_Never(offset) == FALSE
JumpsToSameInsn_NextInsn(offset) == offset = 0
\* if offset == -1
JumpsToSameInsn(offset) == offset = -1

\* Faulty variant (C38 must notice it): no offset is taken to exceed the range.
ExceedsJumpRange_Never(offset) == FALSE
\* Faulty variant (C7 must notice it): the upper limit off by one.
ExceedsJumpRange_OffByOne(offset) == offset >= MaxInt16 \/ offset < MinInt16
\* if offset > math.MaxInt16 || offset < math.MinInt16
ExceedsJumpRange(offset) == offset > MaxInt16 \/ offset < MinInt16

LogFix(b, f, l, offset, ok) ==
    [b EXCEPT !.fixLog = @ \cup {[idx |-> f, label |-> l, target |-> b.labelToInsnIdx[l],
                                   offset |-> offset, ok |-> ok]}]

RECURSIVE ApplyFixUpsFrom(_, _, _)
\* The loop of applyFixUps from the k-th fix-up of targetLabel on; the value is
\* [b |-> the Block afterwards, err |-> the error returned].
ApplyFixUpsFrom(b, targetLabel, k) ==
    IF k > Len(MapGet(b.fixUps, targetLabel, <<>>))
    THEN [b |-> [b EXCEPT !.fixUps = MapDelete(@, targetLabel)], err |-> NoErr]
    ELSE
        LET f == b.fixUps[targetLabel][k] IN
        IF targetLabel \notin DOMAIN b.labelToInsnIdx
        THEN [b |-> b, err |-> MissingLabelErr(targetLabel)]
        ELSE
            LET offset == FixUpOffset(b.labelToInsnIdx[targetLabel], f) IN
            IF JumpsToSameInsn(offset)
            THEN [b |-> LogFix(b, f, targetLabel, offset, FALSE),
                  err |-> SameInsnErr(targetLabel, offset)]
            ELSE IF ExceedsJumpRange(offset)
            THEN [b |-> LogFix(b, f, targetLabel, offset, FALSE),
                  err |-> RangeErr(targetLabel, offset)]
            ELSE ApplyFixUpsFrom(
                     LogFix(StoreInsn(b, f, PatchOffset(InsnAt(b, f), offset)),
                            f, targetLabel, offset, TRUE),
                     targetLabel, k + 1)

\* Faulty variant (C27 must notice it): only the first fix-up of the label is
\* patched before the list is dropped.
ApplyFixUps_FirstOnly(b, targetLabel) ==
    IF Len(MapGet(b.fixUps, targetLabel, <<>>)) <= 1
    THEN ApplyFixUpsFrom(b, targetLabel, 1)
    ELSE ApplyFixUpsFrom([b EXCEPT !.fixUps[targetLabel] = <<@[1]>>], targetLabel, 1)
ApplyFixUps(b, targetLabel) == ApplyFixUpsFrom(b, targetLabel, 1)

\* Faulty variant (C5 must notice it): the latest error replaces the latched one.
LatchErr_Latest(b, label, err) ==
    [b EXCEPT !.deferredErr = DeferredErr(label, b.insnsLen, err)]
\* if b.deferredErr == nil { b.deferredErr = ... }
LatchErr(b, label, err) ==
    IF b.deferredErr = NoErr
    THEN [b EXCEPT !.deferredErr = DeferredErr(label, b.insnsLen, err)]
    ELSE b

\* Faulty variant (C34 must notice it): the fix-ups applied before the label is
\* recorded.
LabelNextInsn_FixUpsFirst(b, label) ==
    LET r == ApplyFixUps(b, label)
        b1 == [r.b EXCEPT
                  !.labelToInsnIdx = MapPut(@, label, b.insnsLen),
                  !.insnIdxToLabels =
                      MapPut(@, b.insnsLen, Append(MapGet(@, b.insnsLen, <<>>), label))]
    IN  IF r.err # NoErr THEN LatchErr(b1, label, r.err) ELSE b1
\* Faulty variant (C40 must notice it): the label replaces the labels recorded
\* at the position.
LabelNextInsn_ReplaceList(b, label) ==
    LET b1 == [b EXCEPT
                  !.labelToInsnIdx = MapPut(@, label, b.insnsLen),
                  !.insnIdxToLabels = MapPut(@, b.insnsLen, <<label>>)]
        r == ApplyFixUps(b1, label)
    IN  IF r.err # NoErr THEN LatchErr(r.b, label, r.err) ELSE r.b
LabelNextInsn(b, label) ==
    LET b1 == [b EXCEPT
                  !.labelToInsnIdx = MapPut(@, label, b.insnsLen),
                  !.insnIdxToLabels =
                      MapPut(@, b.insnsLen, Append(MapGet(@, b.insnsLen, <<>>), label))]
        r == ApplyFixUps(b1, label)
    IN  IF r.err # NoErr THEN LatchErr(r.b, label, r.err) ELSE r.b

\* ------------------------------------------------------------ reachability

\* Faulty variant (C14 must notice it): every jump-class opcode taken to end
\* fall-through.
EndsFallThrough_AnyJumpClass(opcode) == opcode \in {JumpA, Exit, Call, JumpEq64}
\* lastOpCode == JumpA || lastOpCode == Exit
EndsFallThrough(opcode) == opcode = JumpA \/ opcode = Exit

NextInsnReachable(b) ==
    IF b.insnsLen = 0 THEN TRUE
    ELSE IF EndsFallThrough(OpCode(InsnAt(b, b.insnsLen - 1)))
    THEN \E l \in SeqToSet(MapGet(b.insnIdxToLabels, b.insnsLen, <<>>)) :
             l \in b.inUseJumpTargets
    ELSE TRUE

\* Faulty variant (C15 must notice it): the elided instruction's labels are
\* removed from the index-to-labels map only.
DropLabelsHere_KeepBinding(b) == [b EXCEPT !.insnIdxToLabels = MapDelete(@, b.insnsLen)]
\* The unreachable branch: forget the labels recorded at the current position.
DropLabelsHere(b) ==
    [b EXCEPT
        !.labelToInsnIdx =
            [l \in DOMAIN @ \ SeqToSet(MapGet(b.insnIdxToLabels, b.insnsLen, <<>>)) |-> @[l]],
        !.insnIdxToLabels = MapDelete(@, b.insnsLen)]

\* Faulty variant (C39 must notice it): the 32-bit jumps are not counted.
CountsAsJump_Jump64Only(insn) == OpClass(insn) = OpClassJump64
\* insn.OpClass() == OpClassJump64 || insn.OpClass() == OpClassJump32
CountsAsJump(insn) == OpClass(insn) = OpClassJump64 \/ OpClass(insn) = OpClassJump32

\* "goto" + targetLabel
GotoAnnotation(targetLabel) == <<"goto", targetLabel>>

\* Faulty variant (C19 must notice it): the target marked as in use inside the
\* policyDebugEnabled block.
RegisterFixUp_InUseInDebugOnly(b, targetLabel, idx, syn) ==
    [b EXCEPT
        !.insnAnnotation = IF b.policyDebugEnabled
                           THEN MapPut(@, idx, GotoAnnotation(targetLabel))
                           ELSE @,
        !.inUseJumpTargets = IF b.policyDebugEnabled THEN @ \cup {targetLabel} ELSE @,
        !.fixUps = MapPut(@, targetLabel, Append(MapGet(@, targetLabel, <<>>), idx)),
        !.meta = MapPut(@, idx, [tgt |-> targetLabel, syn |-> syn,
                                 to |-> MapGet(b.labelToInsnIdx, targetLabel, -1)])]

\* Faulty variant (C37 must notice it): the fix-up records len(b.insns), the
\* index after the jump.
RegisterFixUp_NextIndex(b, targetLabel, idx, syn) ==
    [b EXCEPT
        !.insnAnnotation = IF b.policyDebugEnabled
                           THEN MapPut(@, idx, GotoAnnotation(targetLabel))
                           ELSE @,
        !.inUseJumpTargets = @ \cup {targetLabel},
        !.fixUps = MapPut(@, targetLabel, Append(MapGet(@, targetLabel, <<>>), idx + 1)),
        !.meta = MapPut(@, idx, [tgt |-> targetLabel, syn |-> syn,
                                 to |-> MapGet(b.labelToInsnIdx, targetLabel, -1)])]

\* if b.policyDebugEnabled { b.insns[len(b.insns)-1].Annotation = ... };
\* b.inUseJumpTargets.Add(targetLabel); b.fixUps[targetLabel] = append(...)
RegisterFixUp(b, targetLabel, idx, syn) ==
    [b EXCEPT
        !.insnAnnotation = IF b.policyDebugEnabled
                           THEN MapPut(@, idx, GotoAnnotation(targetLabel))
                           ELSE @,
        !.inUseJumpTargets = @ \cup {targetLabel},
        !.fixUps = MapPut(@, targetLabel, Append(MapGet(@, targetLabel, <<>>), idx)),
        !.meta = MapPut(@, idx, [tgt |-> targetLabel, syn |-> syn,
                                 to |-> MapGet(b.labelToInsnIdx, targetLabel, -1)])]

\* History: what the call adding insn with target targetLabel found in b
\* (whether the sequence was empty, the last opcode, whether a label recorded at
\* len(insns) is a jump target in use) and what after, the Block it left,
\* shows: whether insn is appended at that index, whether the sequence is as it
\* was, whether the labels that were recorded at the position are gone from both
\* maps, and whether everything else (the other labels, the fix-ups, the latched
\* error, ...) is as it was.
LogEmit(b, insn, targetLabel, syn, after) ==
    LET here == SeqToSet(MapGet(b.insnIdxToLabels, b.insnsLen, <<>>))
    IN
    [after EXCEPT !.emitLog = @ \cup
        {[empty |-> b.insnsLen = 0,
          hadLabels |-> here # {},
          seqKept |-> after.insns = b.insns /\ after.insnsLen = b.insnsLen,
          labelsGone |-> /\ here \cap DOMAIN after.labelToInsnIdx = {}
                         /\ b.insnsLen \notin DOMAIN after.insnIdxToLabels,
          restKept |-> /\ \A l \in DOMAIN b.labelToInsnIdx \ here :
                             /\ l \in DOMAIN after.labelToInsnIdx
                             /\ after.labelToInsnIdx[l] = b.labelToInsnIdx[l]
                       /\ \A i \in DOMAIN b.insnIdxToLabels \ {b.insnsLen} :
                             /\ i \in DOMAIN after.insnIdxToLabels
                             /\ after.insnIdxToLabels[i] = b.insnIdxToLabels[i]
                       /\ [after EXCEPT !.labelToInsnIdx = b.labelToInsnIdx,
                                        !.insnIdxToLabels = b.insnIdxToLabels] = b,
          lastOp |-> IF b.insnsLen = 0 THEN -1 ELSE OpCode(InsnAt(b, b.insnsLen - 1)),
          inUseHere |-> SeqToSet(MapGet(b.insnIdxToLabels, b.insnsLen, <<>>))
                            \cap b.inUseJumpTargets # {},
          op |-> OpCode(insn), tgt |-> targetLabel, syn |-> syn,
          appended |-> /\ after.insnsLen = b.insnsLen + 1
                       /\ InsnAt(after, b.insnsLen) = insn]}]

\* Faulty variant (C16 must notice it): the fix-up is registered before the
\* reachability test, so an elided jump leaves one behind.
AddInsnWithOffsetFixupNoTrampoline_FixUpFirst(b, insn, targetLabel, syn) ==
    LET b0 == IF targetLabel # NoLabel
              THEN [b EXCEPT !.fixUps = MapPut(@, targetLabel,
                                 Append(MapGet(@, targetLabel, <<>>), b.insnsLen))]
              ELSE b
    IN  LogEmit(b, insn, targetLabel, syn,
            IF ~NextInsnReachable(b) THEN DropLabelsHere(b0)
            ELSE
                LET b1 == AppendInsn(b, insn)
                    b2 == IF targetLabel # NoLabel
                          THEN RegisterFixUp(b1, targetLabel, b1.insnsLen - 1, syn)
                          ELSE b1
                IN  IF CountsAsJump(insn) THEN [b2 EXCEPT !.NumJumps = @ + 1] ELSE b2)

\* Faulty variant (C31 must notice it): the target marked as in use before the
\* reachability test.
AddInsnWithOffsetFixupNoTrampoline_InUseFirst(b, insn, targetLabel, syn) ==
    LET b0 == IF targetLabel # NoLabel
              THEN [b EXCEPT !.inUseJumpTargets = @ \cup {targetLabel}]
              ELSE b
    IN  LogEmit(b, insn, targetLabel, syn,
            IF ~NextInsnReachable(b0) THEN DropLabelsHere(b0)
            ELSE
                LET b1 == AppendInsn(b0, insn)
                    b2 == IF targetLabel # NoLabel
                          THEN RegisterFixUp(b1, targetLabel, b1.insnsLen - 1, syn)
                          ELSE b1
                IN  IF CountsAsJump(insn) THEN [b2 EXCEPT !.NumJumps = @ + 1] ELSE b2)

\* syn says who emits the instruction ("caller", "skip" or "relay"); it is
\* recorded in meta only, with the index the target label is bound to when the
\* jump is emitted (-1 when it is not bound).
AddInsnWithOffsetFixupNoTrampoline(b, insn, targetLabel, syn) ==
    LogEmit(b, insn, targetLabel, syn,
        IF ~NextInsnReachable(b) THEN DropLabelsHere(b)
        ELSE
            LET b1 == AppendInsn(b, insn)
                b2 == IF targetLabel # NoLabel
                      THEN RegisterFixUp(b1, targetLabel, b1.insnsLen - 1, syn)
                      ELSE b1
            IN  IF CountsAsJump(insn) THEN [b2 EXCEPT !.NumJumps = @ + 1] ELSE b2)

\* -------------------------------------------------------------- trampolines

JumpNoTrampoline(b, endLabel, syn) ==
    AddInsnWithOffsetFixupNoTrampoline(b, MakeInsn(JumpA, 0, 0, 0, 0), endLabel, syn)

\* Faulty variant (C3 must notice it): the relay jump written before its label is
\* bound.
WriteRelay_JumpFirst(b, label) == LabelNextInsn(JumpNoTrampoline(b, label, "relay"), label)
\* Faulty variant (C35 must notice it): each label relayed twice over.
WriteRelay_Twice(b, label) ==
    JumpNoTrampoline(
        LabelNextInsn(JumpNoTrampoline(LabelNextInsn(b, label), label, "relay"), label),
        label, "relay")
\* b.LabelNextInsn(label); b.JumpNoTrampoline(label)
WriteRelay(b, label) == JumpNoTrampoline(LabelNextInsn(b, label), label, "relay")

RECURSIVE WriteRelays(_, _, _, _)
\* for _, label := range labels { ... }, over labels[lo..hi] in order: the first
\* half of the range, then the second half from the Block the first leaves.
WriteRelays(b, labels, lo, hi) ==
    IF lo > hi THEN b
    ELSE IF lo = hi THEN WriteRelay(b, labels[lo])
    ELSE LET mid == (lo + hi) \div 2
             b1 == WriteRelays(b, labels, lo, mid)
         IN  IF Evaluated(b1) THEN WriteRelays(b1, labels, mid + 1, hi) ELSE b1

\* Faulty variant (C17 must notice it): the trampoline point is recorded and no
\* relay is written.
WriteTrampoline_NoRelays(b) == [b EXCEPT !.lastTrampolineAddr = b.insnsLen]
\* The orders in which "for label := range m" may visit the keys of m.
KeyOrders(m) ==
    {p \in [1..Cardinality(DOMAIN m) -> DOMAIN m] :
        \A i, j \in DOMAIN p : i # j => p[i] # p[j]}
\* One of those orders.
SomeKeyOrder(m) == SortLabels(DOMAIN m)

\* Faulty variant (C18 must notice it): the labels left in iteration order.
SortStrings_Unsorted(keys) == keys
\* sort.Strings(labels), labels holding distinct names.
SortStrings(keys) == SortLabels(SeqToSet(keys))

\* Faulty variant (C29 must notice it): the trampoline point recorded only once
\* a trampoline is to be written.
WriteTrampolineFrom_RecordAfterReturn(b, keys) ==
    IF DOMAIN b.fixUps = {} THEN b
    ELSE
        LET b1 == [b EXCEPT !.lastTrampolineAddr = b.insnsLen]
            labels == SortStrings(keys)
            endLabel == SkipLabel(b1.trampolineIdx)
            b2 == [b1 EXCEPT !.trampolineIdx = @ + 1,
                             !.maxOut = IF Len(labels) > @ THEN Len(labels) ELSE @]
            b3 == JumpNoTrampoline(b2, endLabel, "skip")
            b4 == WriteRelays(b3, labels, 1, Len(labels))
        IN  LabelNextInsn(b4, endLabel)
\* Faulty variant (C28 must notice it): the skip label bound before the relays
\* are written.
WriteTrampolineFrom_SkipBoundFirst(b, keys) ==
    LET b1 == [b EXCEPT !.lastTrampolineAddr = b.insnsLen] IN
    IF DOMAIN b1.fixUps = {} THEN b1
    ELSE
        LET labels == SortStrings(keys)
            endLabel == SkipLabel(b1.trampolineIdx)
            b2 == [b1 EXCEPT !.trampolineIdx = @ + 1,
                             !.maxOut = IF Len(labels) > @ THEN Len(labels) ELSE @]
            b3 == LabelNextInsn(JumpNoTrampoline(b2, endLabel, "skip"), endLabel)
        IN  WriteRelays(b3, labels, 1, Len(labels))
\* Faulty variant (C36 must notice it): the skip label is never bound.
WriteTrampolineFrom_NoSkipLabel(b, keys) ==
    LET b1 == [b EXCEPT !.lastTrampolineAddr = b.insnsLen] IN
    IF DOMAIN b1.fixUps = {} THEN b1
    ELSE
        LET labels == SortStrings(keys)
            endLabel == SkipLabel(b1.trampolineIdx)
            b2 == [b1 EXCEPT !.trampolineIdx = @ + 1,
                             !.maxOut = IF Len(labels) > @ THEN Len(labels) ELSE @]
            b3 == JumpNoTrampoline(b2, endLabel, "skip")
        IN  WriteRelays(b3, labels, 1, Len(labels))
\* writeTrampoline() with the range loop over b.fixUps visiting the keys in the
\* order keys.
WriteTrampolineFrom(b, keys) ==
    LET b1 == [b EXCEPT !.lastTrampolineAddr = b.insnsLen] IN
    IF DOMAIN b1.fixUps = {} THEN b1
    ELSE
        LET labels == SortStrings(keys)
            endLabel == SkipLabel(b1.trampolineIdx)
            b2 == [b1 EXCEPT !.trampolineIdx = @ + 1,
                             !.maxOut = IF Len(labels) > @ THEN Len(labels) ELSE @]
            b3 == JumpNoTrampoline(b2, endLabel, "skip")
            b4 == WriteRelays(b3, labels, 1, Len(labels))
        IN  LabelNextInsn(b4, endLabel)

\* The result is the same whatever the order (C18), so one order stands for all.
WriteTrampoline(b) == WriteTrampolineFrom(b, SomeKeyOrder(b.fixUps))

\* Faulty variant (C30 must notice it): the trampoline point taken one
\* instruction late.
StrideReached_Late(b) == b.insnsLen - b.lastTrampolineAddr > b.trampolineStride
\* len(b.insns)-b.lastTrampolineAddr < b.trampolineStride is false
StrideReached(b) == b.insnsLen - b.lastTrampolineAddr >= b.trampolineStride

\* Faulty variant (C4 must notice it): the second half is not recognised.
IsSecondHalf_Never(nextInsn) == FALSE
\* nextInsn.OpCode() == LoadImm64Pt2
IsSecondHalf(nextInsn) == OpCode(nextInsn) = LoadImm64Pt2

\* Faulty variant (C20 must notice it): trampolines written whether enabled or
\* not.
MaybeWriteTrampoline_AlwaysOn(b, nextInsn) ==
    IF ~StrideReached(b) THEN b
    ELSE IF IsSecondHalf(nextInsn) THEN [b EXCEPT !.pt2Deferred = TRUE]
    ELSE WriteTrampoline(b)

MaybeWriteTrampoline(b, nextInsn) ==
    IF ~b.trampolinesEnabled THEN b
    ELSE IF ~StrideReached(b) THEN b
    ELSE IF IsSecondHalf(nextInsn) THEN [b EXCEPT !.pt2Deferred = TRUE]
    ELSE WriteTrampoline(b)

\* History: the caller's instruction insn, if the call appended it (after is
\* the Block the call leaves of before), joins the caller's own sequence, kept
\* like b.insns (an index that is absent holds NoOpInsn).
LogCallerInsn(before, insn, after) ==
    IF after.insnsLen = before.insnsLen + 1
    THEN [after EXCEPT
             !.callerLen = @ + 1,
             !.callerInsns = IF insn = NoOpInsn THEN @ ELSE MapPut(@, after.callerLen, insn)]
    ELSE after

AddInsnWithOffsetFixup(b, insn, targetLabel) ==
    LET b0 == MaybeWriteTrampoline(b, insn)
    IN  LogCallerInsn(b0, insn,
            AddInsnWithOffsetFixupNoTrampoline(b0, insn, targetLabel, "caller"))

\* b.add(opcode, dst, src, offset, imm, annotation)
Add(b, opcode, dst, src, offset, imm) ==
    AddInsnWithOffsetFixup(b, MakeInsn(opcode, dst, src, offset, imm), NoLabel)

\* The empty annotation.
NoAnnotation == <<>>

\* b.buildAnnotation(opcode, src, dst, fo, imm) for the opcodes the builder calls
\* below pass to it: only Call gets a text.
BuildAnnotation(b, opcode, imm) ==
    IF ~b.policyDebugEnabled THEN NoAnnotation
    ELSE IF opcode = Call THEN <<"call", imm>>
    ELSE NoAnnotation

\* b.add(opcode, dst, src, offset, imm, annotation) with an annotation: the
\* instruction carries it into the sequence when it is appended.
AddAnnotated(b, opcode, dst, src, offset, imm, annotation) ==
    LET insn == MakeInsn(opcode, dst, src, offset, imm)
        b1 == AddInsnWithOffsetFixup(b, insn, NoLabel)
    IN  IF annotation # NoAnnotation /\ NextInsnReachable(MaybeWriteTrampoline(b, insn))
        THEN [b1 EXCEPT !.insnAnnotation = MapPut(@, b1.insnsLen - 1, annotation)]
        ELSE b1

\* b.Call(helperID)
BlockCall(b, helperID) ==
    AddAnnotated(b, Call, 0, 0, 0, helperID, BuildAnnotation(b, Call, helperID))

\* b.AddComment(comment)
BlockAddComment(b, comment) ==
    IF ~b.policyDebugEnabled THEN b
    ELSE [b EXCEPT !.insnIdxToComments =
                       MapPut(@, b.insnsLen, Append(MapGet(@, b.insnsLen, <<>>), comment))]

\* if b.policyDebugEnabled { for idx := range b.insns { ... } }: the labels and
\* the comments recorded at each instruction's index are put on the instruction.
Decorate(b) ==
    IF ~b.policyDebugEnabled THEN b
    ELSE [b EXCEPT
             !.insnLabels = [i \in {j \in DOMAIN b.insnIdxToLabels : j < b.insnsLen}
                                |-> b.insnIdxToLabels[i]],
             !.insnComments = [i \in {j \in DOMAIN b.insnIdxToComments : j < b.insnsLen}
                                  |-> b.insnIdxToComments[i]]]

\* b.addWithOffsetFixup(opcode, dst, src, offsetLabel, imm)
AddWithOffsetFixup(b, opcode, dst, src, offsetLabel, imm) ==
    AddInsnWithOffsetFixup(b, MakeInsn(opcode, dst, src, 0, imm), offsetLabel)

\* Faulty variant (C24 must notice it): the second half made from the unshifted
\* value.
HighWord_Unshifted(imm) == imm[1] + 65536 * ToInt16(imm[2])
\* An int64 is the tuple of the four 16-bit limbs of its two's complement, least
\* significant first.  int32(imm) and int32(imm >> 32):
LowWord(imm) == imm[1] + 65536 * ToInt16(imm[2])
HighWord(imm) == imm[3] + 65536 * ToInt16(imm[4])

BlockLoadImm64(b, dst, imm) ==
    Add(Add(b, LoadImm64, dst, 0, 0, LowWord(imm)), LoadImm64Pt2, 0, 0, 0, HighWord(imm))

\* b.add(LoadImm64, dst, RPseudoMapFD, 0, int32(fd), ""); b.add(LoadImm64Pt2, ...).
\* The descriptors offered are below 2^31, where int32(fd) = fd.
BlockLoadMapFD(b, dst, fd) ==
    Add(Add(b, LoadImm64, dst, RPseudoMapFD, 0, fd), LoadImm64Pt2, 0, 0, 0, 0)

\* ---------------------------------------------------------------- Assemble

\* Whether applyFixUps(label) returns an error in b.
RECURSIVE AssembleLoop(_, _, _)
\* for label := range b.fixUps { err := b.applyFixUps(label); if err != nil
\* { return nil, err } }, the loop visiting the keys in the order keys, from
\* keys[k] on.
AssembleLoop(b, keys, k) ==
    IF k > Len(keys) THEN [b |-> Decorate(b), hasProg |-> TRUE, err |-> NoErr]
    ELSE LET r == ApplyFixUps(b, keys[k])
         IN  IF r.err # NoErr THEN [b |-> r.b, hasProg |-> FALSE, err |-> r.err]
             ELSE AssembleLoop(r.b, keys, k + 1)

\* Assemble() with its range loop visiting the keys in the order keys.
AssembleIn(b, keys) ==
    IF b.deferredErr # NoErr
    THEN [b |-> b, hasProg |-> FALSE, err |-> b.deferredErr]
    ELSE AssembleLoop(b, keys, 1)

FixUpsFail(b, label) == ApplyFixUps(b, label).err # NoErr

RECURSIVE ApplyEach(_, _, _, _)
\* applyFixUps for labels[lo], ..., labels[hi], none of which fails.
ApplyEach(b, labels, lo, hi) ==
    IF lo > hi THEN b
    ELSE IF lo = hi THEN ApplyFixUps(b, labels[lo]).b
    ELSE LET mid == (lo + hi) \div 2
             b1 == ApplyEach(b, labels, lo, mid)
         IN  IF Evaluated(b1) THEN ApplyEach(b1, labels, mid + 1, hi) ELSE b1

\* applyFixUps for every label of S, none of which fails (the fix-ups of different
\* labels patch different instructions, so the order does not show).
ApplyAll(b, S) == ApplyEach(b, SortLabels(S), 1, Cardinality(S))

\* Faulty variant (C12 must notice it): Assemble() treating every outstanding
\* fix-up as a missing label.
AssembleOutcomes_RequireEmpty(b) ==
    IF b.deferredErr # NoErr
    THEN {[b |-> b, hasProg |-> FALSE, err |-> b.deferredErr]}
    ELSE IF DOMAIN b.fixUps = {}
    THEN {[b |-> b, hasProg |-> TRUE, err |-> NoErr]}
    ELSE {[b |-> b, hasProg |-> FALSE, err |-> MissingLabelErr(l)] : l \in DOMAIN b.fixUps}

\* Faulty variant (C6 must notice it): Assemble() without its resolution pass.
AssembleOutcomes_NoFinalPass(b) ==
    {[b |-> b, hasProg |-> b.deferredErr = NoErr, err |-> b.deferredErr]}

\* The outcomes of Assemble() in b, each [b, hasProg, err].  The loop
\* "for label := range b.fixUps" visits the labels in an order the Go runtime
\* picks: it returns at the first label whose fix-ups fail, having applied
\* those of the labels it visited before (any set of labels that do not fail).
AssembleOutcomes(b) ==
    IF b.deferredErr # NoErr
    THEN {[b |-> b, hasProg |-> FALSE, err |-> b.deferredErr]}
    ELSE
        LET failing == {l \in DOMAIN b.fixUps : FixUpsFail(b, l)}
            passing == DOMAIN b.fixUps \ failing
        IN  IF failing = {}
            THEN {[b |-> Decorate(ApplyAll(b, passing)), hasProg |-> TRUE, err |-> NoErr]}
            ELSE {LET r == ApplyFixUps(ApplyAll(b, before), l)
                  IN  [b |-> r.b, hasProg |-> FALSE, err |-> r.err] :
                      l \in failing, before \in SUBSET passing}

\* ----------------------------------------------------------------- output

\* The Insns Assemble() returns, b.insns: element i + 1 is the instruction at
\* index i with its metadata.
Program(b) ==
    [i \in 1..b.insnsLen |->
        [Instruction |-> InsnAt(b, i - 1),
         Labels |-> MapGet(b.insnLabels, i - 1, <<>>),
         Comments |-> MapGet(b.insnComments, i - 1, <<>>),
         Annotation |-> MapGet(b.insnAnnotation, i - 1, NoAnnotation)]]

RECURSIVE AsBytesUpTo(_, _)
\* bs after the first k rounds of "for _, n := range ns".
AsBytesUpTo(ns, k) ==
    IF k = 0 THEN <<>> ELSE AsBytesUpTo(ns, k - 1) \o ns[k].Instruction

\* Faulty variant (C25 must notice it): bs made with a length instead of a
\* capacity, so the instructions follow len(ns)*InstructionSize zero bytes.
AsBytes_MakeWithLen(ns) ==
    [i \in 1..Len(ns) * InstructionSize |-> 0] \o AsBytesUpTo(ns, Len(ns))
\* ns.AsBytes()
AsBytes(ns) == AsBytesUpTo(ns, Len(ns))

\* ------------------------------------------------------------- diagnostics

\* Faulty variant (C21 must notice it): every label ever used as a jump target is
\* reported.
UnresolvedJumpTargetsFrom_EverUsed(b, keys) ==
    SortStrings(SomeKeyOrder([l \in b.inUseJumpTargets |-> 0]))
\* UnresolvedJumpTargets() with the range loop over b.fixUps visiting the keys in
\* the order keys.
UnresolvedJumpTargetsFrom(b, keys) == SortStrings(keys)

\* The value is the same whatever the order, so one order stands for all.
UnresolvedJumpTargets(b) == UnresolvedJumpTargetsFrom(b, SomeKeyOrder(b.fixUps))

NotCalled == [called |-> FALSE]
NoCall == [op |-> "none"]

\* ----------------------------------------------------------------- actions

\* The caller's labels and the strides it asks for in Spec (0 and 1<<14 are
\* out of range).
Labels == {1, 2}
StrideInputs == {0, 1, StrideLimit}

\* The 64-bit immediates offered to LoadImm64: -2.
Imm64Inputs == {<<65534, 65535, 65535, 65535>>}
\* The map descriptors offered to LoadMapFD.
FdInputs == {3}
\* The helper ids offered to Call.
HelperInputs == {1}

Building == result = NotCalled
\* The caller configures the Block before it emits or binds anything.
Configuring == Building /\ emitCalls = 0 /\ runs = 0 /\ DOMAIN callerBinds = {}
CanEmit == Building /\ emitCalls < budget.calls
\* The number of LabelNextInsn calls the caller has made.
BindCalls ==
    Cardinality(UNION {{l} \X (1..Len(callerBinds[l])) : l \in DOMAIN callerBinds})

\* The state after construction, the Block being b0.
InitWith(b0) ==
    /\ insns = b0.insns
    /\ insnsLen = b0.insnsLen
    /\ fixUps = b0.fixUps
    /\ labelToInsnIdx = b0.labelToInsnIdx
    /\ insnIdxToLabels = b0.insnIdxToLabels
    /\ inUseJumpTargets = b0.inUseJumpTargets
    /\ trampolinesEnabled = b0.trampolinesEnabled
    /\ trampolineIdx = b0.trampolineIdx
    /\ lastTrampolineAddr = b0.lastTrampolineAddr
    /\ deferredErr = b0.deferredErr
    /\ NumJumps = b0.NumJumps
    /\ trampolineStride = b0.trampolineStride
    /\ meta = b0.meta
    /\ fixLog = b0.fixLog
    /\ maxOut = b0.maxOut
    /\ pt2Deferred = b0.pt2Deferred
    /\ emitLog = b0.emitLog
    /\ callerLen = b0.callerLen
    /\ callerInsns = b0.callerInsns
    /\ insnIdxToComments = b0.insnIdxToComments
    /\ policyDebugEnabled = b0.policyDebugEnabled
    /\ insnAnnotation = b0.insnAnnotation
    /\ insnLabels = b0.insnLabels
    /\ insnComments = b0.insnComments
    /\ result = NotCalled
    /\ callerBinds = [l \in {} |-> <<>>]
    /\ backRef = FALSE
    /\ everDisabled = FALSE
    /\ emitCalls = 0
    /\ runs = 0
    /\ lastCall = NoCall
    /\ twin = [b0 EXCEPT !.trampolinesEnabled = FALSE]

\* The caller of Spec, and the caller that makes MaxDeepCalls and MaxDeepBinds
\* calls.
ShortBudget == [calls |-> MaxCalls, binds |-> MaxBinds]
DeepBudget == [calls |-> MaxDeepCalls, binds |-> MaxDeepBinds]

Init == InitWith(NewBlock) /\ budget = ShortBudget
InitDeep == InitWith(NewBlock) /\ budget = DeepBudget

\* An instruction-emitting builder call that takes no label.
Plain(b) ==
    /\ Commit(b)
    /\ emitCalls' = emitCalls + 1
    /\ UNCHANGED <<budget, twin, lastCall, result, callerBinds, backRef, everDisabled, runs>>

BlockSetTrampolinesEnabled(b, en) == [b EXCEPT !.trampolinesEnabled = en]

\* Faulty variant (C26 must notice it): the upper limit taken as inclusive.
BlockSetTrampolineStride_Inclusive(b, s) ==
    IF s > 0 /\ s <= StrideLimit THEN [b EXCEPT !.trampolineStride = s] ELSE b
BlockSetTrampolineStride(b, s) ==
    IF s > 0 /\ s < StrideLimit THEN [b EXCEPT !.trampolineStride = s] ELSE b

SetTrampolinesEnabled(en) ==
    /\ Configuring
    /\ Commit(BlockSetTrampolinesEnabled(Blk, en))
    /\ everDisabled' = (everDisabled \/ ~en)
    /\ UNCHANGED <<budget, twin, lastCall, result, callerBinds, backRef, emitCalls, runs>>

SetTrampolineStride(s) ==
    /\ Configuring
    /\ Commit(BlockSetTrampolineStride(Blk, s))
    /\ UNCHANGED <<budget, twin, lastCall, result, histVars>>

NoOp ==
    /\ CanEmit
    /\ Plain(Add(Blk, Mov64, R0, R0, 0, 0))

ExitInsn ==
    /\ CanEmit
    /\ Plain(Add(Blk, Exit, 0, 0, 0, 0))

\* Whether the caller's instruction insn, added to b now, is appended.
WillAppend(b, insn) == NextInsnReachable(MaybeWriteTrampoline(b, insn))

\* A label-taking builder method with opcode opcode.
JumpCall(opcode, ra, rb, label) ==
    /\ Commit(AddWithOffsetFixup(Blk, opcode, ra, rb, label, 0))
    /\ backRef' = (backRef \/ (/\ WillAppend(Blk, MakeInsn(opcode, ra, rb, 0, 0))
                               /\ MapGet(callerBinds, label, <<>>) # <<>>))
    /\ emitCalls' = emitCalls + 1
    /\ UNCHANGED <<budget, twin, lastCall, result, callerBinds, everDisabled, runs>>

Jump(label) ==
    /\ CanEmit
    /\ JumpCall(JumpA, 0, 0, label)

JumpEq64Call(label) ==
    /\ CanEmit
    /\ JumpCall(JumpEq64, R1, R0, label)

\* b.Call(helperID)
CallHelper(helperID) ==
    /\ CanEmit
    /\ Plain(BlockCall(Blk, helperID))

LoadImm64Call(dst, imm) ==
    /\ CanEmit
    /\ Plain(BlockLoadImm64(Blk, dst, imm))

LoadMapFDCall(dst, fd) ==
    /\ CanEmit
    /\ Plain(BlockLoadMapFD(Blk, dst, fd))

CallerLabelNextInsn(label) ==
    /\ Building
    /\ BindCalls < budget.binds
    /\ Commit(LabelNextInsn(Blk, label))
    /\ callerBinds' = MapPut(callerBinds, label,
                             Append(MapGet(callerBinds, label, <<>>), insnsLen))
    /\ UNCHANGED <<budget, twin, lastCall, result, backRef, everDisabled, emitCalls, runs>>

Assemble ==
    /\ Building
    /\ \E o \in AssembleOutcomes(Blk) :
          /\ Commit(o.b)
          /\ result' = [called |-> TRUE, hasProg |-> o.hasProg, err |-> o.err]
    /\ UNCHANGED <<budget, twin, lastCall, histVars>>

Next ==
    \/ \E en \in BOOLEAN : SetTrampolinesEnabled(en)
    \/ \E s \in StrideInputs : SetTrampolineStride(s)
    \/ NoOp
    \/ ExitInsn
    \/ \E h \in HelperInputs : CallHelper(h)
    \/ \E l \in Labels : Jump(l)
    \/ \E l \in Labels : JumpEq64Call(l)
    \/ \E imm \in Imm64Inputs : LoadImm64Call(R1, imm)
    \/ \E fd \in FdInputs : LoadMapFDCall(R1, fd)
    \/ \E l \in Labels : CallerLabelNextInsn(l)
    \/ Assemble

Spec == Init /\ [][Next]_vars

\* ------------------------------------------------- longer programs: SpecDeep

\* Programs of one more call and one more label binding than Spec's, at the
\* default stride or a stride of one, of the calls that jump, end the program
\* or load a 64-bit immediate.
NextDeep ==
    \/ SetTrampolineStride(1)
    \/ Jump(1)
    \/ ExitInsn
    \/ \E l \in Labels : JumpEq64Call(l)
    \/ \E imm \in Imm64Inputs : LoadImm64Call(R1, imm)
    \/ \E l \in Labels : CallerLabelNextInsn(l)
    \/ Assemble

SpecDeep == InitDeep /\ [][NextDeep]_vars

\* ------------------------------------------------ debug metadata: SpecDebug

\* AddComment calls the caller makes in SpecDebug, and the texts it passes.
MaxComments == 1
CommentInputs == {"c"}

\* The AddComment calls made so far that recorded their comment.
CommentsRecorded ==
    Cardinality(UNION {{i} \X (1..Len(insnIdxToComments[i])) : i \in DOMAIN insnIdxToComments})

AddComment(comment) ==
    /\ Building
    /\ CommentsRecorded < MaxComments
    /\ Commit(BlockAddComment(Blk, comment))
    /\ UNCHANGED <<budget, twin, lastCall, result, histVars>>

\* The builder calls of SpecDebug, as values.
DebugCalls ==
    {[op |-> "NoOp", arg |-> 0], [op |-> "Exit", arg |-> 0],
     [op |-> "SetTrampolineStride", arg |-> 1]}
    \cup {[op |-> "Call", arg |-> h] : h \in HelperInputs}
    \cup {[op |-> o, arg |-> l] : o \in {"Jump", "JumpEq64", "LabelNextInsn"}, l \in Labels}
    \cup {[op |-> "AddComment", arg |-> c] : c \in CommentInputs}

\* The Block that the call c leaves of b.
Apply(b, c) ==
    CASE c.op = "NoOp" -> Add(b, Mov64, R0, R0, 0, 0)
      [] c.op = "Exit" -> Add(b, Exit, 0, 0, 0, 0)
      [] c.op = "Call" -> BlockCall(b, c.arg)
      [] c.op = "Jump" -> AddWithOffsetFixup(b, JumpA, 0, 0, c.arg, 0)
      [] c.op = "JumpEq64" -> AddWithOffsetFixup(b, JumpEq64, R1, R0, c.arg, 0)
      [] c.op = "LabelNextInsn" -> LabelNextInsn(b, c.arg)
      [] c.op = "AddComment" -> BlockAddComment(b, c.arg)
      [] c.op = "SetTrampolineStride" -> BlockSetTrampolineStride(b, c.arg)

\* NewBlock(policyDebugEnabled), either way.
InitDebug == (\E debug \in BOOLEAN : InitWith(NewBlockDebug(debug))) /\ budget = ShortBudget

\* The programs of Spec with a stride of one, built with and without debug
\* metadata and with comments interleaved.
NextDebug ==
    \/ SetTrampolineStride(1)
    \/ NoOp
    \/ ExitInsn
    \/ \E h \in HelperInputs : CallHelper(h)
    \/ \E l \in Labels : Jump(l)
    \/ \E l \in Labels : JumpEq64Call(l)
    \/ \E l \in Labels : CallerLabelNextInsn(l)
    \/ \E c \in CommentInputs : AddComment(c)
    \/ Assemble

SpecDebug == InitDebug /\ [][NextDebug]_vars

\* --------------------------------------------------- wide inputs: SpecWide

\* Instruction-emitting calls the caller makes in SpecWide.
MaxWideCalls == 1

\* The arguments offered to Instr: opcodes, registers, int16 offsets and int32
\* immediates at the ends and in the middle of their ranges, a single bit set in
\* each byte of the wider fields.
OpCodeInputs == {0, LoadImm64, Mov64, 255}
RegInputs == {0, 1, 5, 10}
OffsetInputs == {MinInt16, -256, -1, 0, 1, 256, MaxInt16}
Imm32Inputs == {-2147483647 - 1, -65536, -1, 0, 1, 256, 65536, 16777216, 2147483647}

\* b.Instr(opcode, dst, src, offset, imm, "")
BlockInstr(b, opcode, dst, src, offset, imm) == Add(b, opcode, dst, src, offset, imm)

CanEmitWide == Building /\ emitCalls < MaxWideCalls

\* A call of SpecWide's caller that emits.
Wide(b, call) ==
    /\ Commit(b)
    /\ emitCalls' = emitCalls + 1
    /\ lastCall' = call
    /\ UNCHANGED <<budget, twin, result, callerBinds, backRef, everDisabled, runs>>

InstrCall(opcode, dst, src, offset, imm) ==
    /\ CanEmitWide
    /\ Wide(BlockInstr(Blk, opcode, dst, src, offset, imm),
            [op |-> "Instr", opcode |-> opcode, dst |-> dst, src |-> src,
             offset |-> offset, imm |-> imm, at |-> insnsLen])

\* The int64 values offered to LoadImm64 in SpecWide: every combination of
\* limbs that are all zeros, one, the two values around the sign bit, all ones.
LimbInputs == {0, 1, 32767, 32768, 65535}
Imm64WideInputs == LimbInputs \X LimbInputs \X LimbInputs \X LimbInputs

LoadImm64Wide(dst, imm) ==
    /\ CanEmitWide
    /\ LET b == BlockLoadImm64(Blk, dst, imm)
       IN  Wide(b, [op |-> "LoadImm64", dst |-> dst, imm |-> imm,
                    at |-> b.insnsLen - 2, appended |-> b.insnsLen - insnsLen])

\* Programs of single instructions with arguments over their whole ranges.
NextWide ==
    \/ \E opcode \in OpCodeInputs, dst, src \in RegInputs,
          offset \in OffsetInputs, imm \in Imm32Inputs :
              InstrCall(opcode, dst, src, offset, imm)
    \/ \E dst \in RegInputs, imm \in Imm64WideInputs : LoadImm64Wide(dst, imm)
    \/ Assemble

SpecWide == Init /\ [][NextWide]_vars

\* --------------------------------------------- stride changes: SpecStride

\* The strides offered in SpecStride: around both limits, and beyond.
WideStrideInputs == {-1, 0, 1, StrideLimit - 1, StrideLimit, StrideLimit + 1, MaxInt16}

\* b.SetTrampolineStride(s), at any point before Assemble().
SetTrampolineStrideWide(s) ==
    /\ Building
    /\ Commit(BlockSetTrampolineStride(Blk, s))
    /\ lastCall' = [op |-> "SetTrampolineStride", s |-> s, was |-> trampolineStride]
    /\ UNCHANGED <<budget, twin, result, histVars>>

\* Short programs with one label whose caller changes the stride at any point.
NextStride ==
    \/ \E s \in WideStrideInputs : SetTrampolineStrideWide(s)
    \/ NoOp
    \/ Jump(1)
    \/ CallerLabelNextInsn(1)
    \/ Assemble

SpecStride == Init /\ [][NextStride]_vars

\* ------------------------------------------- reserved capacity: SpecReserve

\* The capacities the caller asks for in SpecReserve.
ReserveInputs == {0, 2, 8}
\* cap(b.insns): what it is after a run of appends is up to the Go runtime,
\* len(b.insns) or more.
CapacityInputs(b) == {b.insnsLen, b.insnsLen + 1, b.insnsLen + 8}

\* b.ReserveInstructionCapacity(n), at any point before Assemble().
ReserveInstructionCapacity(n) ==
    /\ Building
    /\ \E capacity \in CapacityInputs(Blk) :
          /\ Commit(BlockReserveInstructionCapacity(Blk, n, capacity))
          /\ lastCall' = [op |-> "ReserveInstructionCapacity", n |-> n,
                          copied |-> capacity < n]
    /\ UNCHANGED <<budget, twin, result, histVars>>

\* Short programs with one label and a stride of one whose caller reserves
\* capacity at any point.
NextReserve ==
    \/ SetTrampolineStride(1)
    \/ \E n \in ReserveInputs : ReserveInstructionCapacity(n)
    \/ NoOp
    \/ ExitInsn
    \/ \E h \in HelperInputs : CallHelper(h)
    \/ JumpEq64Call(1)
    \/ CallerLabelNextInsn(1)
    \/ Assemble

SpecReserve == InitDeep /\ [][NextReserve]_vars

\* --------------------------------------------- trampolines or not: SpecTwin

\* Instruction-emitting calls and LabelNextInsn calls the caller makes in
\* SpecTwin, and the strides it asks for.
MaxTwinCalls == 3
MaxTwinBinds == 1
TwinStrideInputs == {1, 2}

\* The builder calls of SpecTwin, as values.
TwinCalls ==
    {[op |-> "NoOp", arg |-> 0], [op |-> "Exit", arg |-> 0]}
    \cup {[op |-> "SetTrampolineStride", arg |-> s] : s \in TwinStrideInputs}
    \cup {[op |-> "Call", arg |-> h] : h \in HelperInputs}
    \cup {[op |-> "LoadImm64", arg |-> imm] : imm \in Imm64Inputs}
    \cup {[op |-> o, arg |-> l] :
              o \in {"Jump", "JumpEq64", "JumpEq32", "LabelNextInsn"}, l \in Labels}

\* The Block that the call c leaves of b.
TwinApply(b, c) ==
    CASE c.op = "LoadImm64" -> BlockLoadImm64(b, R1, c.arg)
      [] c.op = "JumpEq32" -> AddWithOffsetFixup(b, JumpEq32, R1, R0, c.arg, 0)
      [] OTHER -> Apply(b, c)

\* The caller makes the call c on the Block and on its twin.
TwinCall(c) ==
    /\ Building
    /\ CASE c.op = "SetTrampolineStride" -> Configuring
         [] c.op = "LabelNextInsn" -> BindCalls < MaxTwinBinds
         [] OTHER -> emitCalls < MaxTwinCalls
    /\ Commit(TwinApply(Blk, c))
    /\ twin' = TwinApply(twin, c)
    /\ emitCalls' = IF c.op \in {"SetTrampolineStride", "LabelNextInsn"}
                    THEN emitCalls ELSE emitCalls + 1
    /\ callerBinds' = IF c.op = "LabelNextInsn"
                      THEN MapPut(callerBinds, c.arg,
                                  Append(MapGet(callerBinds, c.arg, <<>>), insnsLen))
                      ELSE callerBinds
    /\ backRef' = (backRef \/ (/\ c.op \in {"Jump", "JumpEq64", "JumpEq32"}
                               /\ callerLen' = callerLen + 1
                               /\ MapGet(callerBinds, c.arg, <<>>) # <<>>))
    /\ UNCHANGED <<budget, lastCall, result, everDisabled, runs>>

\* Assemble() on the Block and on its twin.
TwinAssemble ==
    /\ Building
    /\ \E o \in AssembleOutcomes(Blk) :
          /\ Commit(o.b)
          /\ result' = [called |-> TRUE, hasProg |-> o.hasProg, err |-> o.err]
    /\ \E o \in AssembleOutcomes(twin) : twin' = o.b
    /\ UNCHANGED <<budget, lastCall, histVars>>

\* Short programs built twice from the same calls: with trampolines at a stride
\* of one, two or the default, and with trampolines disabled.
NextTwin ==
    \/ \E c \in TwinCalls : TwinCall(c)
    \/ TwinAssemble

SpecTwin == Init /\ [][NextTwin]_vars

\* ------------------------------------------------- long programs: SpecLong

\* Single instruction-emitting calls, runs of NoOp() and LabelNextInsn calls the
\* caller makes in SpecLong and SpecMany.
MaxLongCalls == 3
MaxRuns == 1
MaxLongBinds == 2

\* The instructions that can still be appended before the next call is a
\* trampoline point.
StrideGap(b) == b.trampolineStride - (b.insnsLen - b.lastTrampolineAddr)

\* n > 0 consecutive NoOp() calls, none of them at a trampoline point: each call
\* appends Mov64(R0, R0) if the first one is reachable (the instruction falls
\* through, so the following ones are too), and otherwise each is dropped, the
\* first one forgetting the labels at the position.
BlockNoOps(b, n) ==
    IF ~NextInsnReachable(b) THEN DropLabelsHere(b)
    ELSE [b EXCEPT !.insnsLen = @ + n, !.callerLen = @ + n]

NoTrampolinePointIn(b, n) == ~b.trampolinesEnabled \/ n <= StrideGap(b)

NoOps(n) ==
    /\ Building
    /\ runs < MaxRuns
    /\ n > 0
    /\ NoTrampolinePointIn(Blk, n)
    /\ Commit(BlockNoOps(Blk, n))
    /\ runs' = runs + 1
    /\ UNCHANGED <<budget, twin, lastCall, result, callerBinds, backRef, everDisabled, emitCalls>>

RECURSIVE BlockNoOpsAcross(_, _)
\* n consecutive NoOp() calls with trampoline points among them: the calls up to
\* the next trampoline point, the call at the trampoline point, then the
\* remaining calls from the Block that call leaves.
BlockNoOpsAcross(b, n) ==
    IF n <= 0 THEN b
    ELSE IF NoTrampolinePointIn(b, n) THEN BlockNoOps(b, n)
    ELSE LET g == IF StrideGap(b) > 0 THEN StrideGap(b) ELSE 0
             b1 == IF g > 0 THEN BlockNoOps(b, g) ELSE b
             b2 == Add(b1, Mov64, R0, R0, 0, 0)
         IN  IF Evaluated(b2) THEN BlockNoOpsAcross(b2, n - g - 1) ELSE b2

NoOpsAcross(n) ==
    /\ Building
    /\ runs < MaxRuns
    /\ n > 0
    /\ ~NoTrampolinePointIn(Blk, n)
    /\ Commit(BlockNoOpsAcross(Blk, n))
    /\ runs' = runs + 1
    /\ UNCHANGED <<budget, twin, lastCall, result, callerBinds, backRef, everDisabled, emitCalls>>

\* The stride the caller may ask for in SpecLong: the largest one accepted.
LongStrideInputs == {StrideLimit - 1}

CanEmitLong == Building /\ emitCalls < MaxLongCalls

LongNoOp ==
    /\ CanEmitLong
    /\ Plain(Add(Blk, Mov64, R0, R0, 0, 0))

LongJumpEq64(label) ==
    /\ CanEmitLong
    /\ JumpCall(JumpEq64, R1, R0, label)

LongLabelNextInsn(label) ==
    /\ Building
    /\ BindCalls < MaxLongBinds
    /\ Commit(LabelNextInsn(Blk, label))
    /\ callerBinds' = MapPut(callerBinds, label,
                             Append(MapGet(callerBinds, label, <<>>), insnsLen))
    /\ UNCHANGED <<budget, twin, lastCall, result, backRef, everDisabled, emitCalls, runs>>

\* Programs with one run of MaxInt16 NoOp() calls, so that jumps span the
\* limits of the offset field.
NextLong ==
    \/ \E en \in BOOLEAN : SetTrampolinesEnabled(en)
    \/ \E s \in LongStrideInputs : SetTrampolineStride(s)
    \/ LongNoOp
    \/ NoOps(MaxInt16)
    \/ NoOpsAcross(MaxInt16)
    \/ \E l \in Labels : LongJumpEq64(l)
    \/ \E l \in Labels : LongLabelNextInsn(l)
    \/ Assemble

SpecLong == Init /\ [][NextLong]_vars

\* ------------------------------------------------- many labels: SpecMany

\* The caller of SpecMany opens with jumps to this many labels or to
\* trampolineHeadroom labels, and then makes this many instruction-emitting calls.
MaxManyLabels == 102
MaxManyCalls == 2
ManyInputs == {MaxManyLabels - 2, MaxManyLabels}

RECURSIVE BlockJumpEq64Down(_, _, _)
\* JumpEq64(R1, R0, l) for l = hi, hi-1, ..., lo, in that order.
BlockJumpEq64Down(b, hi, lo) ==
    IF hi < lo THEN b
    ELSE IF hi = lo THEN AddWithOffsetFixup(b, JumpEq64, R1, R0, hi, 0)
    ELSE LET mid == (lo + hi) \div 2
             b1 == BlockJumpEq64Down(b, hi, mid + 1)
         IN  IF Evaluated(b1) THEN BlockJumpEq64Down(b1, mid, lo) ELSE b1

\* The caller's first jumps: one to each of the labels hi down to 1.
JumpEq64Down(hi) ==
    /\ Building
    /\ inUseJumpTargets = {} /\ emitCalls = 0 /\ runs = 0
    /\ Commit(BlockJumpEq64Down(Blk, hi, 1))
    /\ UNCHANGED <<budget, twin, lastCall, result, histVars>>

RECURSIVE BlockBindEach(_, _, _, _)
\* LabelNextInsn(labels[lo]), ..., LabelNextInsn(labels[hi]), in that order.
BlockBindEach(b, labels, lo, hi) ==
    IF lo > hi THEN b
    ELSE IF lo = hi THEN LabelNextInsn(b, labels[lo])
    ELSE LET mid == (lo + hi) \div 2
             b1 == BlockBindEach(b, labels, lo, mid)
         IN  IF Evaluated(b1) THEN BlockBindEach(b1, labels, mid + 1, hi) ELSE b1

\* for _, l := range b.UnresolvedJumpTargets() { b.LabelNextInsn(l) }
BindUnresolved ==
    /\ Building
    /\ DOMAIN fixUps # {}
    /\ DOMAIN fixUps \cap DOMAIN callerBinds = {}
    /\ Commit(BlockBindEach(Blk, SortLabels(DOMAIN fixUps), 1, Cardinality(DOMAIN fixUps)))
    /\ callerBinds' = [l \in DOMAIN callerBinds \cup DOMAIN fixUps |->
                          Append(MapGet(callerBinds, l, <<>>), insnsLen)]
    /\ UNCHANGED <<budget, twin, lastCall, result, backRef, everDisabled, emitCalls, runs>>

\* Programs that open with jumps to about trampolineHeadroom labels and run up
\* to the first trampoline point at the default stride.
NextMany ==
    \/ \E hi \in ManyInputs : JumpEq64Down(hi)
    \/ NoOp
    \/ \E imm \in Imm64Inputs : LoadImm64Call(R1, imm)
    \/ \E d \in {0, 1} : NoOps(StrideGap(Blk) - d)
    \/ BindUnresolved
    \/ Assemble

InitMany == InitWith(NewBlock) /\ budget = [calls |-> MaxManyCalls, binds |-> MaxBinds]

SpecMany == InitMany /\ [][NextMany]_vars

\* ------------------------------------------- successive trampolines: SpecFar

\* Runs of NoOp() calls the caller makes in SpecFar, and the number of labels
\* its opening jumps name.
MaxFarRuns == 2
FarInputs == {trampolineHeadroom}

\* A run of NoOp() calls that stops n instructions short of the next trampoline
\* point.
FarNoOps(n) ==
    /\ Building
    /\ runs < MaxFarRuns
    /\ n > 0
    /\ NoTrampolinePointIn(Blk, n)
    /\ Commit(BlockNoOps(Blk, n))
    /\ runs' = runs + 1
    /\ UNCHANGED <<budget, twin, lastCall, result, callerBinds, backRef, everDisabled, emitCalls>>

\* Programs under construction at the default stride that open with jumps to
\* trampolineHeadroom labels and run past two trampoline points, so that relays
\* are relayed.
NextFar ==
    \/ \E hi \in FarInputs : JumpEq64Down(hi)
    \/ LongNoOp
    \/ \E imm \in Imm64Inputs : CanEmitLong /\ Plain(BlockLoadImm64(Blk, R1, imm))
    \/ \E d \in {0, 1} : FarNoOps(StrideGap(Blk) - d)
    \/ BindUnresolved

SpecFar == Init /\ [][NextFar]_vars

\* ------------------------------------------------------- claim vocabulary

\* The indices of the label-taking jumps the caller's own calls appended.
CallerJumps == {i \in DOMAIN meta : meta[i].syn = "caller"}
\* The indices of the relay jumps trampolines wrote for label l.
RelaysOf(l) == {i \in DOMAIN meta : meta[i].syn = "relay" /\ meta[i].tgt = l}
\* The index the encoded jump at i lands on.
JumpTarget(i) == i + 1 + Off(InsnAt(Blk, i))
Succeeded == result # NotCalled /\ result.hasProg
Failed == result # NotCalled /\ ~result.hasProg /\ result.err # NoErr
\* The step is the caller's LabelNextInsn(l).
IsCallerBind(l) ==
    MapGet(callerBinds', l, <<>>) = Append(MapGet(callerBinds, l, <<>>), insnsLen)
\* Every fix-up pending on l would, bound at index t, get an offset within range.
AllFit(l, t) ==
    \A j \in SeqToSet(MapGet(fixUps, l, <<>>)) : ~ExceedsJumpRange(FixUpOffset(t, j))

\* ------------------------------------------------------------------ claims

\* C1: when the caller binds label L at index t, every jump the caller emitted to
\* L at an index i < t whose fix-up is still pending (no trampoline has relayed
\* it) has its offset field patched to exactly t - i - 1, the pending offsets
\* fitting the 16-bit field.
C1_ForwardOffset ==
    [][\A l \in Labels :
          (IsCallerBind(l) /\ AllFit(l, insnsLen)) =>
              \A i \in SeqToSet(MapGet(fixUps, l, <<>>)) \cap CallerJumps :
                  i < insnsLen =>
                      /\ Off(InsnAt(Blk', i)) = insnsLen - i - 1
                      /\ l \notin DOMAIN fixUps']_vars

\* A caller jump at i was patched by the caller's bind two or more positions
\* further on, no trampoline having been written.
C1_Witness ==
    \E e \in fixLog :
        /\ e.ok /\ e.idx \in CallerJumps /\ trampolineIdx = 0
        /\ e.target \in SeqToSet(MapGet(callerBinds, e.label, <<>>))
        /\ e.target >= e.idx + 3
        /\ Off(InsnAt(Blk, e.idx)) = e.target - e.idx - 1

RECURSIVE Chase(_, _, _)
\* Where the jump at i ends up: its encoded target, followed on through the
\* relay jumps for label l (at most fuel of them).
Chase(i, l, fuel) ==
    LET t == JumpTarget(i)
    IN  IF fuel > 0 /\ t \in RelaysOf(l) THEN Chase(t, l, fuel - 1) ELSE t

\* The caller bound every label at most once and only after the jumps to it.
ForwardOnly ==
    /\ ~backRef
    /\ \A l \in DOMAIN callerBinds : Len(callerBinds[l]) = 1

\* C3: after a successful Assemble() of a forward-only program, each caller jump to
\* L leads, through the relays for L, to the index at which the caller bound L.
C3_RelaysReachBinding ==
    (Succeeded /\ ForwardOnly) =>
        \A i \in CallerJumps :
            /\ meta[i].tgt \in DOMAIN callerBinds
            /\ Chase(i, meta[i].tgt, insnsLen) = callerBinds[meta[i].tgt][1]

\* A successful forward-only program in which a caller jump reaches its label
\* through two relays, with a second label relayed beside it.
C3_Witness ==
    /\ Succeeded /\ ForwardOnly
    /\ \E i \in CallerJumps :
          /\ JumpTarget(i) \in RelaysOf(meta[i].tgt)
          /\ JumpTarget(JumpTarget(i)) \in RelaysOf(meta[i].tgt)
          /\ \E j \in CallerJumps : meta[j].tgt # meta[i].tgt /\ RelaysOf(meta[j].tgt) # {}

\* C4: whenever no builder call is in progress, every LoadImm64 first half in the
\* sequence is immediately followed by its second half (opcode 0) and every
\* opcode-0 instruction immediately follows a first half: a pair is appended
\* whole or not at all, and nothing is ever inserted between the halves.
C4_PairNeverSplit ==
    \A i \in DOMAIN insns :
        /\ OpCode(insns[i]) = LoadImm64 =>
              (i + 1 < insnsLen /\ OpCode(InsnAt(Blk, i + 1)) = LoadImm64Pt2)
        /\ OpCode(insns[i]) = LoadImm64Pt2 =>
              (i >= 1 /\ OpCode(InsnAt(Blk, i - 1)) = LoadImm64)

\* The stride was reached between the halves of a pair while a label was
\* outstanding, and the trampoline was written right after the pair instead.
C4_Witness ==
    /\ pt2Deferred
    /\ \E i \in DOMAIN insns :
          /\ OpCode(insns[i]) = LoadImm64
          /\ i + 1 - trampolineStride >= 0
          /\ i + 2 \in DOMAIN meta /\ meta[i + 2].syn = "skip"
          /\ lastTrampolineAddr = i + 2

\* C6: Assemble() returns a program exactly when it returns no error, and then no
\* fix-up is outstanding and every registered fix-up has been patched.
C6_AssembleAllOrNothing ==
    result # NotCalled =>
        /\ result.hasProg <=> (result.err = NoErr)
        /\ result.hasProg =>
              /\ DOMAIN fixUps = {}
              /\ \A i \in DOMAIN meta : \E e \in fixLog : e.idx = i /\ e.ok

\* Assemble() succeeded on a program with two or more caller jumps and a relay,
\* all of them patched.
C6_Witness ==
    /\ Succeeded
    /\ Cardinality(CallerJumps) >= 2
    /\ \E i \in DOMAIN meta : meta[i].syn = "relay"

\* A fix-up whose label is bound at the fix-up's own index.
SelfFixUps == {<<l, k>> \in UNION {{l} \X (1..Len(fixUps[l])) : l \in DOMAIN fixUps} :
                  l \in DOMAIN labelToInsnIdx /\ labelToInsnIdx[l] = fixUps[l][k]}

\* C8: a fix-up whose label resolves to the jump's own index makes Assemble() fail,
\* and no jump is ever encoded with offset -1.
C8_SelfJumpRejected ==
    /\ (result # NotCalled /\ SelfFixUps # {}) => Failed
    /\ \A i \in DOMAIN meta : Off(InsnAt(Blk, i)) # -1

\* Assemble() was called with a caller jump to L sitting at the index the caller
\* had bound L at just before, no trampoline involved.
C8_Witness ==
    /\ result # NotCalled /\ trampolineIdx = 0
    /\ \E p \in SelfFixUps :
          /\ fixUps[p[1]][p[2]] \in CallerJumps
          /\ fixUps[p[1]][p[2]] \in SeqToSet(MapGet(callerBinds, p[1], <<>>))

\* C9 as stated: a caller jump whose label the caller binds at the very next index
\* leaves an error latched.
C9_Original ==
    [][\A l \in Labels :
          (IsCallerBind(l) /\ insnsLen - 1 \in SeqToSet(MapGet(fixUps, l, <<>>)) \cap CallerJumps)
              => deferredErr' # NoErr]_vars

\* C9 amended: when the caller binds L directly after the jump to it (every pending
\* offset fitting), the jump is patched with offset 0, the fix-up is cleared and
\* no error is latched by the bind.
C9_NextInsnIsOffsetZero ==
    [][\A l \in Labels :
          (/\ IsCallerBind(l) /\ AllFit(l, insnsLen)
           /\ insnsLen - 1 \in SeqToSet(MapGet(fixUps, l, <<>>)) \cap CallerJumps)
              => /\ Off(InsnAt(Blk', insnsLen - 1)) = 0
                 /\ [idx |-> insnsLen - 1, label |-> l, target |-> insnsLen,
                     offset |-> 0, ok |-> TRUE] \in fixLog'
                 /\ l \notin DOMAIN fixUps'
                 /\ deferredErr' = deferredErr]_vars

\* Jump(L) directly followed by LabelNextInsn(L), then a successful Assemble().
C9_Witness ==
    /\ Succeeded
    /\ \E e \in fixLog :
          /\ e.ok /\ e.offset = 0 /\ e.idx \in CallerJumps
          /\ e.target \in SeqToSet(MapGet(callerBinds, e.label, <<>>))
          /\ Off(InsnAt(Blk, e.idx)) = 0 /\ OpCode(InsnAt(Blk, e.idx)) = JumpA

\* The labels of appended caller jumps that the caller never bound.
NeverBound == {meta[i].tgt : i \in CallerJumps} \ DOMAIN callerBinds

\* C10: if an appended caller jump names a label the caller never binds, Assemble()
\* returns an error and no program.
C10_UnboundLabelFails ==
    (result # NotCalled /\ NeverBound # {}) => Failed

\* Assemble() was called with a never-bound label that trampolines had relayed
\* twice.
C10_Witness ==
    /\ result # NotCalled
    /\ \E l \in NeverBound : Cardinality(RelaysOf(l)) >= 2

\* ------------------------------------------- claims about long programs

\* Trampolines have been on throughout, every caller jump is a forward reference
\* and the caller has bound the label of each.
TrampolinedForward ==
    /\ trampolinesEnabled /\ ~everDisabled /\ ~backRef
    /\ \A l \in DOMAIN callerBinds : Len(callerBinds[l]) = 1
AllCallerLabelsBound == \A i \in CallerJumps : meta[i].tgt \in DOMAIN callerBinds
\* No fix-up resolution computed an offset out of range, no error is latched,
\* and Assemble(), once the caller has bound every label, succeeds.
EveryOffsetInRange ==
    /\ \A e \in fixLog : ~ExceedsJumpRange(e.offset)
    /\ deferredErr = NoErr
    /\ (result # NotCalled /\ AllCallerLabelsBound) => Succeeded

\* C2 as stated: with trampolines on and forward references only, every offset
\* is in range whatever the number of labels outstanding at a trampoline point.
C2_Original == TrampolinedForward => EveryOffsetInRange

\* C2 amended: with trampolines on (default stride) and forward references only,
\* every offset is in range, no error is latched and Assemble() succeeds, provided
\* that at most trampolineHeadroom labels are outstanding at each trampoline point.
C2_InRangeWithinHeadroom ==
    (TrampolinedForward /\ maxOut <= trampolineHeadroom) => EveryOffsetInRange

\* A program longer than MaxInt16 instructions assembled successfully: exactly
\* trampolineHeadroom labels were outstanding at its trampoline, which was put off
\* by one instruction for a LoadImm64 pair, and the first caller jump reaches its
\* relay with offset MaxInt16.
C2_Witness ==
    /\ Succeeded /\ TrampolinedForward /\ AllCallerLabelsBound
    /\ insnsLen > MaxInt16
    /\ maxOut = trampolineHeadroom /\ pt2Deferred
    /\ \E e \in fixLog :
          /\ e.ok /\ e.offset = MaxInt16 /\ e.idx \in CallerJumps
          /\ e.target \in RelaysOf(e.label)

\* C5: once an error is latched it is never replaced; the first LabelNextInsn
\* whose fix-up resolution fails latches that failure; calls made after it still
\* bind their label and append their instruction; and Assemble() then returns the
\* latched error and no program.
C5_DeferredErrSetOnce ==
    [][/\ deferredErr # NoErr => deferredErr' = deferredErr
       /\ \A l \in Labels :
             IsCallerBind(l) =>
                 /\ labelToInsnIdx'[l] = insnsLen
                 /\ \A e \in fixLog' \ fixLog :
                       (~e.ok /\ deferredErr = NoErr) =>
                           deferredErr' = DeferredErr(l, insnsLen, RangeErr(l, e.offset))
       /\ (deferredErr # NoErr /\ emitCalls' = emitCalls + 1 /\ NextInsnReachable(Blk))
              => insnsLen' > insnsLen
       /\ (deferredErr # NoErr /\ result' # result)
              => result' = [called |-> TRUE, hasProg |-> FALSE, err |-> deferredErr]]_vars

\* Assemble() returned the error latched by the first of two failing
\* LabelNextInsn calls; an instruction was appended between the two, the second
\* label is bound where it was put, and Assemble()'s own pass would have found a
\* different error.
C5_Witness ==
    /\ Failed /\ result.err = deferredErr
    /\ \E e1, e2 \in fixLog :
          /\ ~e1.ok /\ ~e2.ok /\ e1.label # e2.label
          /\ deferredErr = DeferredErr(e1.label, e1.target, RangeErr(e1.label, e1.offset))
          /\ e2.target > e1.target
          /\ labelToInsnIdx[e2.label] = e2.target
    /\ \E l \in DOMAIN fixUps :
          FixUpsFail(Blk, l) /\ ApplyFixUps(Blk, l).err # deferredErr

\* C7: every offset o that fix-up resolution computes is patched into the jump's
\* offset field if and only if -32768 <= o <= 32767 and o # -1; otherwise the
\* instruction is left as it was and the call fails: LabelNextInsn latches an
\* error, Assemble() returns one, and an Assemble() after a rejected offset
\* returns no program.
C7_RangeBoundaries ==
    [][/\ \A e \in fixLog' \ fixLog :
             /\ e.ok <=> (MinInt16 <= e.offset /\ e.offset <= MaxInt16 /\ e.offset # -1)
             /\ e.ok => Off(InsnAt(Blk', e.idx)) = e.offset
             /\ ~e.ok =>
                   /\ InsnAt(Blk', e.idx) = InsnAt(Blk, e.idx)
                   /\ IF result' # result
                      THEN result'.err \in {RangeErr(e.label, e.offset),
                                            SameInsnErr(e.label, e.offset)}
                      ELSE deferredErr' # NoErr
       /\ (result' # result /\ \E e \in fixLog' : ~e.ok) => Failed']_vars

\* A forward jump was patched with offset 32767 and a backward jump with -32768,
\* and Assemble() failed on a backward jump whose offset came to -32769.
C7_Witness ==
    /\ Failed
    /\ \E e \in fixLog : e.ok /\ e.offset = MaxInt16 /\ Off(InsnAt(Blk, e.idx)) = MaxInt16
    /\ \E e \in fixLog : e.ok /\ e.offset = MinInt16 /\ Off(InsnAt(Blk, e.idx)) = MinInt16
    /\ \E e \in fixLog :
          /\ ~e.ok /\ e.offset = MinInt16 - 1
          /\ result.err = RangeErr(e.label, e.offset)

\* ------------------------------------------------ claims C11 .. C20

\* Assemble() ran its own pass (no error was latched) and the error it returned
\* is about a label that an appended caller jump names and the caller never bound.
FailedOnNeverBound ==
    /\ Failed /\ deferredErr = NoErr
    /\ result.err.label \in NeverBound

\* C11 as stated: the error Assemble() returns for a never-bound label is the
\* missing-label error, also when a trampoline has relayed the label.
C11_Original ==
    FailedOnNeverBound => result.err.kind = "missing"

\* C11 amended: the error Assemble() returns for a never-bound label L is the
\* missing-label error when no trampoline has relayed L; when one has, the relay
\* bound L at the relay's own index and the error is the same-instruction error
\* (offset -1).
C11_MissingUnlessRelayed ==
    FailedOnNeverBound =>
        LET l == result.err.label
        IN  IF RelaysOf(l) = {}
            THEN result.err.kind = "missing"
            ELSE /\ result.err.kind = "same" /\ result.err.offset = -1
                 /\ l \in DOMAIN labelToInsnIdx
                 /\ labelToInsnIdx[l] \in RelaysOf(l)

\* Assemble() returned the same-instruction error for a never-bound label that a
\* trampoline had relayed, while another never-bound label, not relayed, is
\* outstanding too.
C11_Witness ==
    /\ FailedOnNeverBound
    /\ RelaysOf(result.err.label) # {}
    /\ result.err.kind = "same"
    /\ \E l \in NeverBound : RelaysOf(l) = {}

\* Label l is bound and each of its outstanding fix-ups gets an offset that is
\* in range and not -1.
Resolvable(l) ==
    /\ l \in DOMAIN labelToInsnIdx
    /\ \A k \in 1..Len(fixUps[l]) :
          LET o == labelToInsnIdx[l] - fixUps[l][k] - 1
          IN  o # -1 /\ o >= MinInt16 /\ o <= MaxInt16
\* The step is a call of Assemble() with no error latched.
AssembleRuns == result' # result /\ deferredErr = NoErr

\* C12 as stated: with no error latched, Assemble() called with any fix-up
\* outstanding returns the missing-label error.
C12_Original ==
    [][(AssembleRuns /\ DOMAIN fixUps # {}) => result'.err.kind = "missing"]_vars

\* C12 amended: with no error latched, Assemble() succeeds exactly when every
\* label with outstanding fix-ups is bound with offsets in range and not -1 (the
\* fix-ups of backward references are outstanding on entry and are resolved by
\* the call); it returns the missing-label error only for a label that has
\* outstanding fix-ups and is not bound, and never succeeds while such a label
\* exists.
C12_AssembleResolvesOutstanding ==
    [][AssembleRuns =>
          /\ Succeeded' <=> \A l \in DOMAIN fixUps : Resolvable(l)
          /\ result'.err.kind = "missing" =>
                 result'.err.label \in DOMAIN fixUps \ DOMAIN labelToInsnIdx
          /\ (DOMAIN fixUps \ DOMAIN labelToInsnIdx # {}) => Failed'
          /\ (DOMAIN fixUps = DOMAIN fixUps \ DOMAIN labelToInsnIdx /\ DOMAIN fixUps # {})
                 => result'.err.kind = "missing"]_vars

\* Assemble() succeeded although a caller jump to an earlier-bound label was
\* still outstanding when it was called: it patched the jump with a negative
\* offset.
C12_Witness ==
    /\ Succeeded
    /\ \E e \in fixLog :
          /\ e.ok /\ e.offset < -1 /\ e.idx \in CallerJumps
          /\ e.target \in SeqToSet(MapGet(callerBinds, e.label, <<>>))
          /\ Off(InsnAt(Blk, e.idx)) = e.offset

\* The caller jumps emitted when the caller had bound their label, once, at an
\* earlier index, where it was still bound.
BackwardJumps ==
    {i \in CallerJumps :
        /\ MapGet(callerBinds, meta[i].tgt, <<>>) = <<meta[i].to>>
        /\ meta[i].to < i}
\* A trampoline wrote a relay after the backward jump at i, for its label.
RelayedAfter(i) == \E r \in RelaysOf(meta[i].tgt) : r > i

\* C13 as stated: a jump at i to a label the caller bound before, at t < i, makes
\* Assemble() succeed with offset t - i - 1 in that jump, also when a trampoline
\* point is passed after the jump (every caller jump of the run being such a
\* backward reference, all within 32767 instructions).
C13_Original ==
    (result # NotCalled /\ CallerJumps # {} /\ CallerJumps = BackwardJumps)
        => /\ Succeeded
           /\ \A i \in CallerJumps : Off(InsnAt(Blk, i)) = meta[i].to - i - 1

\* What the code does: the backward reference works when no trampoline relays
\* the label after the jump.
C13_BackwardWithoutRelay ==
    (/\ result # NotCalled /\ CallerJumps # {} /\ CallerJumps = BackwardJumps
     /\ \A i \in CallerJumps : ~RelayedAfter(i))
        => /\ Succeeded
           /\ \A i \in CallerJumps : Off(InsnAt(Blk, i)) = meta[i].to - i - 1

\* Assemble() failed on a run whose only caller jump is a backward reference: a
\* trampoline written after the jump rebound the label to its relay, patched the
\* jump forward to the relay, and left the relay jumping to itself.
C13_Witness ==
    /\ Failed /\ result.err.kind = "same"
    /\ CallerJumps # {} /\ CallerJumps = BackwardJumps
    /\ \E i \in CallerJumps :
          /\ Off(InsnAt(Blk, i)) >= 0
          /\ JumpTarget(i) \in RelaysOf(meta[i].tgt)
          /\ labelToInsnIdx[meta[i].tgt] = JumpTarget(i)

\* Assemble() succeeded on a run with a backward reference and no relay.
C13_WitnessWithoutRelay ==
    /\ Succeeded /\ trampolinesEnabled
    /\ CallerJumps # {} /\ CallerJumps = BackwardJumps
    /\ \E i \in CallerJumps : Off(InsnAt(Blk, i)) = meta[i].to - i - 1 /\ meta[i].to - i - 1 < -1

\* The call logged as e found the next instruction reachable, as the three cases
\* put it.
ReachableAsStated(e) ==
    \/ e.empty
    \/ e.lastOp # JumpA /\ e.lastOp # Exit
    \/ e.inUseHere

\* C14: every instruction handed to the Block, by the caller or by a trampoline,
\* is appended if and only if the sequence is empty, or the last appended
\* opcode is neither JumpA nor Exit, or a label recorded at len(insns) is a jump
\* target in use, and is dropped otherwise; so an instruction at a position
\* carrying an in-use label is never dropped, and an instruction following a
\* conditional jump or a Call is never dropped.
C14_AppendedIffReachable ==
    \A e \in emitLog :
        /\ e.appended <=> ReachableAsStated(e)
        /\ e.inUseHere => e.appended
        /\ e.lastOp \in {JumpEq64, Call} => e.appended

\* One run had an instruction dropped after a JumpA or Exit with no in-use label
\* at the position, and an instruction appended after a JumpA or Exit because an
\* in-use label was recorded there.
C14_Witness ==
    /\ \E e \in emitLog : ~e.appended /\ e.lastOp \in {JumpA, Exit} /\ ~e.inUseHere
    /\ \E e \in emitLog : e.appended /\ e.lastOp \in {JumpA, Exit} /\ e.inUseHere

\* An instruction was appended right after a Call, and a trampoline's jump past
\* its relays was dropped as unreachable.
C14_WitnessCall ==
    /\ \E e \in emitLog : e.appended /\ e.lastOp = Call
    /\ \E e \in emitLog : ~e.appended /\ e.syn = "skip"

\* An instruction was appended right after a conditional jump, and a relay was
\* appended after a JumpA at a position carrying its in-use label.
C14_WitnessConditional ==
    /\ \E e \in emitLog : e.appended /\ e.lastOp = JumpEq64
    /\ \E e \in emitLog : e.appended /\ e.syn = "relay" /\ e.lastOp = JumpA /\ e.inUseHere

\* C15: a call whose instruction is elided as unreachable leaves the instruction
\* sequence as it was and removes every label recorded at the current position
\* from both the label-to-index and the index-to-labels map, and changes
\* nothing else; in particular Exit(), LabelNextInsn(X), Mov64(R0, R0), with no
\* jump emitted, leaves the single Exit instruction and X not bound.
C15_ElisionDropsLabels ==
    /\ \A e \in emitLog : ~e.appended => e.seqKept /\ e.labelsGone /\ e.restKept
    /\ (/\ emitCalls = 2 /\ DOMAIN meta = {}
        /\ InsnAt(Blk, 0) = MakeInsn(Exit, 0, 0, 0, 0)
        /\ callerBinds = MapPut(<<>>, 1, <<1>>)
        /\ \E e \in emitLog : e.op = Mov64 /\ e.lastOp = Exit /\ e.hadLabels)
       => /\ insnsLen = 1
          /\ 1 \notin DOMAIN labelToInsnIdx
          /\ DOMAIN insnIdxToLabels = {}
          /\ result # NotCalled => Succeeded

\* Assemble() returned the single Exit after Exit(), LabelNextInsn(1),
\* Mov64(R0, R0): the Mov64 was elided at a position that carried the label.
C15_Witness ==
    /\ Succeeded /\ emitCalls = 2 /\ DOMAIN meta = {}
    /\ InsnAt(Blk, 0) = MakeInsn(Exit, 0, 0, 0, 0)
    /\ callerBinds = MapPut(<<>>, 1, <<1>>)
    /\ \E e \in emitLog : /\ e.op = Mov64 /\ e.lastOp = Exit /\ e.hadLabels
                          /\ ~e.appended /\ e.labelsGone

\* What Assemble() would return for b: each possible pair of "a program is
\* returned" and error.
ReturnsOf(b) == {[hasProg |-> o.hasProg, err |-> o.err] : o \in AssembleOutcomes(b)}
\* The labels of the jumps that were appended.
AppendedTargets == {meta[i].tgt : i \in DOMAIN meta}
\* The step is a builder call that appended nothing: its instruction was elided.
ElisionStep == emitCalls' = emitCalls + 1 /\ insnsLen' = insnsLen

\* C16: a builder call whose instruction is elided leaves the latched error and
\* the outstanding fix-ups as they were, and Assemble() would return after it
\* what it would have returned before it; the error Assemble() returns, and the
\* error latched, always name the label of a jump that was appended, never a
\* label that only elided jumps name.
C16_ElisionIsNoFailure ==
    /\ [][ElisionStep => /\ deferredErr' = deferredErr
                         /\ fixUps' = fixUps
                         /\ ReturnsOf(Blk') = ReturnsOf(Blk)]_vars
    /\ [](/\ \A e \in emitLog : ~e.appended => e.restKept
          /\ deferredErr # NoErr => deferredErr.label \in AppendedTargets
          /\ Failed => result.err.label \in AppendedTargets)

\* Assemble() returned the program after the caller's jump to a label it never
\* bound was elided as unreachable.
C16_Witness ==
    /\ Succeeded
    /\ \E e \in emitLog :
          /\ ~e.appended /\ e.syn = "caller"
          /\ e.tgt # NoLabel /\ e.tgt \notin DOMAIN callerBinds

\* Assemble() has been called on a program whose one caller jump, at index i, is
\* a forward jump: its label was not bound when it was emitted and the caller
\* bound it once, later.
OneForwardJump(i) ==
    /\ result # NotCalled
    /\ CallerJumps = {i} /\ meta[i].to = -1
    /\ DOMAIN callerBinds = {meta[i].tgt}
    /\ Len(callerBinds[meta[i].tgt]) = 1
    /\ callerBinds[meta[i].tgt][1] > i
\* The index at which the caller bound the label of the jump at i.
BoundAt(i) == callerBinds[meta[i].tgt][1]
\* The number of instructions between the jump at i and its label.
Span(i) == BoundAt(i) - i - 1
\* Assemble() returned a range error, its own or the one LabelNextInsn latched.
RangeFailure ==
    /\ Failed
    /\ \/ result.err.kind = "range"
       \/ result.err.kind = "deferred" /\ result.err.cause.kind = "range"

\* C17 as stated: a forward jump over more instructions than the configured
\* stride assembles with trampolines enabled and fails with a range error with
\* trampolines disabled.
C17_Original ==
    \A i \in DOMAIN meta :
        (OneForwardJump(i) /\ Span(i) > trampolineStride)
            => IF trampolinesEnabled THEN Succeeded ELSE RangeFailure

\* C17 amended: a forward jump over more than 32767 instructions assembles with
\* trampolines enabled, the jump reaching its label through relays, and fails
\* with a range error with trampolines disabled; over at most 32767
\* instructions, more than the stride or not, it assembles either way.
C17_TrampolinesExtendRange ==
    \A i \in DOMAIN meta :
        OneForwardJump(i) =>
            IF trampolinesEnabled
            THEN Succeeded /\ Chase(i, meta[i].tgt, trampolineIdx) = BoundAt(i)
            ELSE IF Span(i) > MaxInt16 THEN RangeFailure ELSE Succeeded

\* With trampolines enabled, Assemble() returned a program in which the caller's
\* jump reaches, through a relay, a label bound more than 32767 instructions on.
C17_Witness ==
    /\ trampolinesEnabled /\ Succeeded
    /\ \E i \in DOMAIN meta :
          /\ OneForwardJump(i) /\ Span(i) > MaxInt16
          /\ RelaysOf(meta[i].tgt) # {}

\* With trampolines disabled, Assemble() returned a range error for a jump over
\* 32768 instructions.
C17_WitnessDisabled ==
    /\ ~trampolinesEnabled /\ RangeFailure
    /\ \E i \in DOMAIN meta : OneForwardJump(i) /\ Span(i) = MaxInt16 + 1

\* With trampolines disabled, Assemble() returned the program with a jump over
\* 32767 instructions, more than the stride.
C17_WitnessWithinRange ==
    /\ ~trampolinesEnabled /\ Succeeded
    /\ \E i \in DOMAIN meta :
          OneForwardJump(i) /\ Span(i) = MaxInt16 /\ Span(i) > trampolineStride

\* What the caller gets from the Assemble() outcome o: the instructions, if any.
Output(o) ==
    [hasProg |-> o.hasProg,
     len |-> IF o.hasProg THEN o.b.insnsLen ELSE 0,
     insns |-> IF o.hasProg THEN o.b.insns ELSE <<>>]

\* C18: the output is a function of the configuration and the call sequence: in
\* every state a call sequence leads to, a trampoline written now is the same
\* whatever the order in which the outstanding labels are visited, and
\* Assemble() called now returns the same instructions (or none) whatever the
\* order in which its loop visits them; the Assemble action offers exactly the
\* outputs and errors of those orders.
C18_OrderNeverShows ==
    result = NotCalled =>
        /\ \A p, q \in KeyOrders(fixUps) :
              /\ WriteTrampolineFrom(Blk, p) = WriteTrampolineFrom(Blk, q)
              /\ Output(AssembleIn(Blk, p)) = Output(AssembleIn(Blk, q))
        /\ {Output(o) : o \in AssembleOutcomes(Blk)}
               = {Output(AssembleIn(Blk, p)) : p \in KeyOrders(fixUps)}
        /\ {o.err : o \in AssembleOutcomes(Blk)}
               = {AssembleIn(Blk, p).err : p \in KeyOrders(fixUps)}

\* Assemble() returned a program for which a trampoline was written with two
\* labels outstanding, each relayed.
C18_Witness ==
    /\ Succeeded /\ maxOut >= 2
    /\ \E l1, l2 \in DOMAIN callerBinds :
          l1 # l2 /\ RelaysOf(l1) # {} /\ RelaysOf(l2) # {}

\* Assemble() returned a program after resolving, in its own loop, jumps to two
\* different labels.
C18_WitnessTwoAtAssemble ==
    /\ Succeeded
    /\ \E e1, e2 \in fixLog :
          /\ e1.ok /\ e2.ok /\ e1.label # e2.label
          /\ e1.offset < -1 /\ e2.offset < -1

\* b without its debug metadata: the Block of a NewBlock(false) that was given
\* no comment.
Strip(b) ==
    [b EXCEPT !.policyDebugEnabled = FALSE, !.insnIdxToComments = <<>>,
              !.insnAnnotation = <<>>, !.insnLabels = <<>>, !.insnComments = <<>>]

\* The opcode and the target label of the instruction the call c emits, for the
\* calls that emit one.
EmitsInsn(c) == c.op \in {"NoOp", "Exit", "Call", "Jump", "JumpEq64"}
OpCodeOf(c) ==
    CASE c.op = "NoOp" -> Mov64 [] c.op = "Exit" -> Exit [] c.op = "Call" -> Call
      [] c.op = "Jump" -> JumpA [] c.op = "JumpEq64" -> JumpEq64
TargetOf(c) == IF c.op \in {"Jump", "JumpEq64"} THEN c.arg ELSE NoLabel
\* The history of the step fits the call c: an emitting call is counted and
\* logged with its opcode and target, a LabelNextInsn is recorded as a bind.
FitsStep(c) ==
    IF EmitsInsn(c)
    THEN /\ emitCalls' = emitCalls + 1
         /\ \E e \in emitLog' :
               e.syn = "caller" /\ e.op = OpCodeOf(c) /\ e.tgt = TargetOf(c)
    ELSE /\ emitCalls' = emitCalls
         /\ IF c.op = "LabelNextInsn" THEN IsCallerBind(c.arg)
            ELSE callerBinds' = callerBinds

\* C19: the instruction bytes and the elisions do not depend on the debug
\* metadata.  With policyDebugEnabled true or false and comments added, every
\* step of the caller is a builder call that leaves, debug metadata aside, the
\* Block it leaves of the Block without debug metadata (the same bytes, labels,
\* fix-ups and the same record of appended and elided instructions), and
\* Assemble() returns the same bytes for both.  So a Block with debug metadata
\* and one without, given the same calls, agree call after call.
C19_DebugNeverShows ==
    [][IF result' = NotCalled
       THEN \E c \in DebugCalls :
               /\ FitsStep(c)
               /\ Blk' = Apply(Blk, c)
               /\ Strip(Blk') = Apply(Strip(Blk), c)
       ELSE /\ Blk' \in {o.b : o \in AssembleOutcomes(Blk)}
            /\ {Output(o) : o \in AssembleOutcomes(Blk)}
                   = {Output(o) : o \in AssembleOutcomes(Strip(Blk))}]_vars

\* With policyDebugEnabled, Assemble() returned a program carrying an
\* annotation, a comment and a label, built by calls one of which was elided.
C19_Witness ==
    /\ policyDebugEnabled /\ Succeeded
    /\ insnAnnotation # <<>> /\ insnComments # <<>> /\ insnLabels # <<>>
    /\ \E e \in emitLog : ~e.appended

\* The instruction a has the opcode, registers and immediate of c: it is c with
\* its offset field patched, or c itself.
SameButOffset(a, c) == \A k \in {1, 2, 5, 6, 7, 8} : a[k] = c[k]
\* Every label the Block knows of, bound, referenced or recorded at an index.
KnownLabels ==
    DOMAIN labelToInsnIdx \cup DOMAIN fixUps \cup inUseJumpTargets
        \cup UNION {SeqToSet(insnIdxToLabels[i]) : i \in DOMAIN insnIdxToLabels}

\* C20: with trampolines disabled before the first instruction, the Block emits
\* no instruction and binds no label of its own: no trampoline is counted, every
\* jump and every instruction handed to the Block is the caller's, every label
\* it knows of is one the caller passed, bound where the caller last bound it,
\* and the instruction sequence, which Assemble() returns, is exactly the
\* caller's instructions that were not elided, in call order, jump offsets
\* patched, also when the program is longer than the stride.
C20_DisabledAddsNothing ==
    ~trampolinesEnabled =>
        /\ trampolineIdx = 0
        /\ \A i \in DOMAIN meta : meta[i].syn = "caller"
        /\ \A e \in emitLog : e.syn = "caller"
        /\ \A l \in KnownLabels : ~IsSkipLabel(l)
        /\ \A l \in DOMAIN labelToInsnIdx :
              /\ l \in DOMAIN callerBinds
              /\ labelToInsnIdx[l] = callerBinds[l][Len(callerBinds[l])]
        /\ insnsLen = callerLen
        /\ DOMAIN insns = DOMAIN callerInsns
        /\ \A i \in DOMAIN insns : SameButOffset(insns[i], callerInsns[i])

\* With trampolines disabled and a stride of one, Assemble() returned a program
\* of three of the caller's instructions, one of them a jump.
C20_Witness ==
    /\ ~trampolinesEnabled /\ trampolineStride = 1 /\ Succeeded
    /\ insnsLen = 3 /\ callerLen = 3
    /\ CallerJumps # {}

\* ------------------------------------------------ claims C21 .. C30

\* The registered jumps that no fix-up resolution has patched so far, and the
\* labels they name.
Unpatched == {i \in DOMAIN meta : ~\E e \in fixLog : e.idx = i /\ e.ok}
OutstandingLabels == {meta[i].tgt : i \in Unpatched}
\* s is in strictly ascending sort.Strings order.
IsAscending(s) == \A i, j \in 1..Len(s) : i < j => LabelLess(s[i], s[j])

C21_WitnessResolved ==
    /\ Building
    /\ \E l \in inUseJumpTargets : l \notin SeqToSet(UnresolvedJumpTargets(Blk))
    /\ UnresolvedJumpTargets(Blk) # <<>>

\* C22 as stated: every label UnresolvedJumpTargets() returns has been used in a
\* jump and has no position in the label-to-index map.
C22_Original ==
    \A l \in SeqToSet(UnresolvedJumpTargets(Blk)) :
        /\ l \in inUseJumpTargets
        /\ l \notin DOMAIN labelToInsnIdx

\* What does hold: every label returned has been used in a jump, and one that
\* has a position is the target of a jump registered after the label was bound
\* there (a backward reference or a relay), or of a jump whose patching failed.
C22_UsedAndBoundOnlyBehind ==
    \A l \in SeqToSet(UnresolvedJumpTargets(Blk)) :
        /\ l \in inUseJumpTargets
        /\ l \in DOMAIN labelToInsnIdx =>
              \E i \in SeqToSet(fixUps[l]) :
                  \/ meta[i].to = labelToInsnIdx[l]
                  \/ \E e \in fixLog : e.idx = i /\ ~e.ok

\* The caller bound a label and then jumped to it: the label is reported.
C22_WitnessBackward ==
    /\ Building /\ trampolineIdx = 0
    /\ \E l \in SeqToSet(UnresolvedJumpTargets(Blk)) :
          l \in DOMAIN callerBinds /\ l \in DOMAIN labelToInsnIdx

\* C23: the 8 bytes an Instr(opcode, dst, src, offset, imm) call appends, for
\* opcode in 0..255, dst and src in 0..10, an int16 offset and an int32 imm,
\* decode to the arguments (OpCode, Dst, Src, Off, Imm), and they are: the
\* opcode, dst in the low and src in the high nibble, the offset's two's
\* complement low byte first, the immediate's two's complement low byte first.
C23_EncodeRoundTrip ==
    lastCall.op = "Instr" =>
        LET c == lastCall
            n == InsnAt(Blk, c.at)
            uoff == IF c.offset < 0 THEN c.offset + 65536 ELSE c.offset
            hi == IF c.imm < 0 THEN (c.imm + 2147483647) + 1 ELSE c.imm
        IN  /\ Len(n) = InstructionSize
            /\ OpCode(n) = c.opcode /\ Dst(n) = c.dst /\ Src(n) = c.src
            /\ Off(n) = c.offset /\ Imm(n) = c.imm
            /\ n[1] = c.opcode
            /\ n[2] % 16 = c.dst /\ n[2] \div 16 = c.src
            /\ n[3] + 256 * n[4] = uoff
            /\ n[5] + 256 * n[6] + 65536 * n[7] + 16777216 * (n[8] % 128) = hi
            /\ n[8] \div 128 = (IF c.imm < 0 THEN 1 ELSE 0)
            /\ \A k \in 1..8 : n[k] \in 0..255

\* Instr was called with opcode 255, registers 10 and 5, the most negative
\* offset and the most negative immediate.
C23_Witness ==
    /\ lastCall.op = "Instr"
    /\ lastCall.opcode = 255 /\ lastCall.dst = 10 /\ lastCall.src = 5
    /\ lastCall.offset = MinInt16 /\ lastCall.imm = -2147483647 - 1
    /\ InsnAt(Blk, lastCall.at) = <<255, 90, 0, 128, 0, 0, 0, 128>>

\* The int32 v as the two 16-bit limbs of its two's complement, low limb first.
Limbs32(v) == <<v % 65536, (v \div 65536) % 65536>>

\* C24: a LoadImm64(dst, imm) call appends two consecutive instructions: the first
\* has opcode 0x18, destination dst, source and offset 0 and the low 32 bits of
\* imm as immediate, the second has opcode 0, registers and offset 0 and the
\* high 32 bits; the two immediates, the low one taken as unsigned, put side by
\* side are imm, whatever its sign.
C24_LoadImm64Halves ==
    lastCall.op = "LoadImm64" =>
        LET c == lastCall
            n1 == InsnAt(Blk, c.at)
            n2 == InsnAt(Blk, c.at + 1)
        IN  /\ c.appended = 2 /\ insnsLen = c.at + 2
            /\ OpCode(n1) = 24 /\ Dst(n1) = c.dst /\ Src(n1) = 0 /\ Off(n1) = 0
            /\ OpCode(n2) = 0 /\ Dst(n2) = 0 /\ Src(n2) = 0 /\ Off(n2) = 0
            /\ Limbs32(Imm(n1)) = <<c.imm[1], c.imm[2]>>
            /\ Limbs32(Imm(n2)) = <<c.imm[3], c.imm[4]>>
            /\ Limbs32(Imm(n1)) \o Limbs32(Imm(n2)) = c.imm

\* LoadImm64 was called with 0x7fffffff80000000: the low half is the most
\* negative int32 and the high half the most positive one.
C24_Witness ==
    /\ lastCall.op = "LoadImm64" /\ lastCall.dst = 10
    /\ lastCall.imm = <<0, 32768, 65535, 32767>>
    /\ Imm(InsnAt(Blk, lastCall.at)) = -2147483647 - 1
    /\ Imm(InsnAt(Blk, lastCall.at + 1)) = 2147483647

\* LoadImm64 was called with -4294901759 (0xffffffffffff0001): both halves are
\* negative.
C24_WitnessNegative ==
    /\ lastCall.op = "LoadImm64"
    /\ lastCall.imm = <<1, 65535, 65535, 65535>>
    /\ Imm(InsnAt(Blk, lastCall.at)) = -65535
    /\ Imm(InsnAt(Blk, lastCall.at + 1)) = -1

\* C25: AsBytes() on the n instructions a successful Assemble() returned gives
\* exactly 8 * n bytes: bytes 8i .. 8i+7 are the 8 encoded bytes of the
\* instruction at index i, and nothing of the labels, comments or annotations.
C25_AsBytesConcatenates ==
    Succeeded =>
        LET ns == Program(Blk)
            bs == AsBytes(ns)
        IN  /\ Len(bs) = 8 * insnsLen
            /\ \A i \in 0..(insnsLen - 1) : \A k \in 1..8 :
                   bs[8 * i + k] = InsnAt(Blk, i)[k]
            /\ \A j \in 1..Len(bs) : bs[j] \in 0..255

\* AsBytes() of a returned program of three or more instructions, not all the
\* same, one of which carries a label, one a comment and one an annotation.
C25_Witness ==
    /\ Succeeded /\ insnsLen >= 3
    /\ \E i, j \in 0..(insnsLen - 1) : InsnAt(Blk, i) # InsnAt(Blk, j)
    /\ DOMAIN insnLabels # {} /\ DOMAIN insnComments # {} /\ DOMAIN insnAnnotation # {}
    /\ Len(AsBytes(Program(Blk))) = 8 * insnsLen

\* C26: after SetTrampolineStride(s) the stride is s if 0 < s < 16384, and
\* otherwise (0, a negative s, 16384 and above) it is the stride from before the
\* call.
C26_StrideSetIffInRange ==
    lastCall.op = "SetTrampolineStride" =>
        trampolineStride = IF 0 < lastCall.s /\ lastCall.s < 16384
                           THEN lastCall.s
                           ELSE lastCall.was

\* SetTrampolineStride(16384) was ignored on a Block whose stride an earlier
\* call had set to 16383.
C26_Witness ==
    /\ lastCall.op = "SetTrampolineStride"
    /\ lastCall.s = StrideLimit /\ lastCall.was = StrideLimit - 1
    /\ trampolineStride = StrideLimit - 1

\* SetTrampolineStride(1) replaced the default stride after an instruction was
\* emitted, and SetTrampolineStride(0) was ignored on a new Block.
C26_WitnessAccepted ==
    /\ lastCall.op = "SetTrampolineStride" /\ insnsLen > 0
    /\ lastCall.s = 1 /\ lastCall.was = TrampolineStrideDefault /\ trampolineStride = 1
C26_WitnessZero ==
    /\ lastCall.op = "SetTrampolineStride" /\ insnsLen = 0
    /\ lastCall.s = 0 /\ lastCall.was = TrampolineStrideDefault
    /\ trampolineStride = TrampolineStrideDefault

\* The fix-ups pending on l, and whether applyFixUps finds no fault with any of
\* them when l is bound at index t.
Pending(l) == SeqToSet(MapGet(fixUps, l, <<>>))
BindsCleanly(l, t) ==
    \A j \in Pending(l) :
        ~JumpsToSameInsn(FixUpOffset(t, j)) /\ ~ExceedsJumpRange(FixUpOffset(t, j))

\* C27: when the caller's LabelNextInsn(L) completes without error, every jump
\* with a fix-up pending on L (caller jumps and relays, however many) is patched
\* with its own offset len(insns) - index - 1, so each lands on len(insns); L
\* leaves the fix-ups and UnresolvedJumpTargets() no longer returns it; and L
\* only comes back among the fix-ups in a step that emits a new jump to L.
C27_BindPatchesAllPending ==
    [][/\ \A l \in Labels :
             (IsCallerBind(l) /\ BindsCleanly(l, insnsLen)) =>
                 /\ \A i \in Pending(l) :
                        /\ Off(InsnAt(Blk', i)) = insnsLen - i - 1
                        /\ i + 1 + Off(InsnAt(Blk', i)) = insnsLen
                 /\ labelToInsnIdx'[l] = insnsLen
                 /\ l \notin DOMAIN fixUps'
                 /\ l \notin SeqToSet(UnresolvedJumpTargets(Blk'))
                 /\ deferredErr' = deferredErr
       /\ \A l \in Labels :
             (l \notin DOMAIN fixUps /\ l \in DOMAIN fixUps') =>
                 \E i \in DOMAIN meta' \ DOMAIN meta : meta'[i].tgt = l]_vars

\* The caller's bind of L patched two caller jumps to L, each with its own
\* offset (both stand as patched), and a jump to L emitted after the bind has
\* made L outstanding again.
C27_Witness ==
    /\ Building /\ trampolineIdx = 0
    /\ \E e1, e2 \in fixLog :
          /\ e1.ok /\ e2.ok /\ e1.label = e2.label /\ e1.target = e2.target
          /\ e1.idx < e2.idx /\ e2.idx \in CallerJumps /\ e1.idx \in CallerJumps
          /\ e1.target \in SeqToSet(MapGet(callerBinds, e1.label, <<>>))
          /\ Off(InsnAt(Blk, e1.idx)) = e1.target - e1.idx - 1
          /\ Off(InsnAt(Blk, e2.idx)) = e2.target - e2.idx - 1
          /\ e1.label \in SeqToSet(UnresolvedJumpTargets(Blk))

\* The caller's bind of L patched a caller jump and the relay a trampoline had
\* written for L.
C27_WitnessRelay ==
    \E e \in fixLog :
        /\ e.ok /\ e.idx \in RelaysOf(e.label)
        /\ e.target \in SeqToSet(MapGet(callerBinds, e.label, <<>>))
        /\ e.label \notin DOMAIN fixUps

\* The step is one instruction-emitting call that wrote a trampoline (at index
\* len(insns), before its own instruction).
TrampolineStep == emitCalls' = emitCalls + 1 /\ trampolineIdx' = trampolineIdx + 1
\* The place of l among the outstanding labels in ascending order, and the index
\* of the relay that place gives it in a trampoline written now.
RankOf(l) == 1 + Cardinality({m \in DOMAIN fixUps : LabelLess(m, l)})
RelayAt(l) == insnsLen + RankOf(l)
\* Every fix-up pending on l is within jump range of that relay.
FitsRelay(l) ==
    \A j \in Pending(l) : ~ExceedsJumpRange(FixUpOffset(RelayAt(l), j))

\* The trampoline written in this step is a JumpA at T = len(insns) with offset
\* n, the number of outstanding labels; a JumpA relay for each label at T + its
\* place in ascending order, with a fix-up pending on the label; and the skip
\* label bound at T + n + 1 with no fix-up left.
TrampolineShape ==
    LET T == insnsLen
        n == Cardinality(DOMAIN fixUps)
        skip == SkipLabel(trampolineIdx)
    IN  /\ n >= 1
        /\ T \in DOMAIN meta' /\ meta'[T].syn = "skip" /\ meta'[T].tgt = skip
        /\ OpCode(InsnAt(Blk', T)) = JumpA /\ Off(InsnAt(Blk', T)) = n
        /\ \A l \in DOMAIN fixUps :
              LET r == RelayAt(l)
              IN  /\ r \in (T + 1)..(T + n)
                  /\ OpCode(InsnAt(Blk', r)) = JumpA
                  /\ r \in DOMAIN meta' /\ meta'[r].syn = "relay" /\ meta'[r].tgt = l
                  /\ l \in DOMAIN fixUps' /\ r \in SeqToSet(fixUps'[l])
        /\ skip \in DOMAIN labelToInsnIdx' /\ labelToInsnIdx'[skip] = T + n + 1
        /\ skip \notin DOMAIN fixUps'
        /\ insnsLen' >= T + n + 1

\* Every fix-up that was pending on l is patched to land on l's relay and is no
\* longer pending.
RelayTakesOver(l) ==
    \A j \in Pending(l) :
        /\ j + 1 + Off(InsnAt(Blk', j)) = RelayAt(l)
        /\ j \notin SeqToSet(MapGet(fixUps', l, <<>>))

\* C28 as stated: a trampoline written at a reachable index has that shape and
\* every fix-up pending before it is patched to its label's relay.
C28_Original ==
    [][(TrampolineStep /\ NextInsnReachable(Blk)) =>
           /\ TrampolineShape
           /\ \A l \in DOMAIN fixUps : RelayTakesOver(l)]_vars

\* C28 amended: a trampoline written at a reachable index has that shape, and
\* the fix-ups pending on a label are patched to the label's relay when each of
\* them is within jump range of the relay.
C28_TrampolineBlock ==
    [][(TrampolineStep /\ NextInsnReachable(Blk)) =>
           /\ TrampolineShape
           /\ \A l \in DOMAIN fixUps : FitsRelay(l) => RelayTakesOver(l)]_vars

\* A trampoline relayed trampolineHeadroom labels or more, in ascending order,
\* all the caller's jumps patched to their relays.
C28_Witness ==
    /\ maxOut >= trampolineHeadroom /\ deferredErr = NoErr
    /\ \E T \in DOMAIN meta :
          /\ meta[T].syn = "skip" /\ Off(InsnAt(Blk, T)) = maxOut
          /\ \A k \in 1..maxOut : meta[T + k].syn = "relay" /\ meta[T + k].tgt = k
          /\ \A i \in CallerJumps : JumpTarget(i) \in RelaysOf(meta[i].tgt)

\* A trampoline of two relays was written in a short program.
C28_WitnessTwo ==
    \E T \in DOMAIN meta :
        /\ meta[T].syn = "skip" /\ Off(InsnAt(Blk, T)) = 2
        /\ meta[T + 1].syn = "relay" /\ meta[T + 1].tgt = 1
        /\ meta[T + 2].syn = "relay" /\ meta[T + 2].tgt = 2
        /\ \A i \in CallerJumps : i < T => JumpTarget(i) \in RelaysOf(meta[i].tgt)

\* The step is one instruction-emitting call of the caller.
EmitStep == emitCalls' = emitCalls + 1
\* Trampolines are enabled and the stride has been reached at len(insns).
AtTrampolinePoint ==
    trampolinesEnabled /\ insnsLen - lastTrampolineAddr >= trampolineStride

\* C29: at a builder call a trampoline point is taken, lastTrampolineAddr
\* becoming len(insns), exactly when trampolines are enabled and len(insns) -
\* lastTrampolineAddr >= stride as the call starts (every call's first instruction
\* has an opcode other than 0); none is taken before the opcode-0 second half of
\* a LoadImm64 pair, stride reached or not; and a trampoline point taken while no
\* fix-up is outstanding appends nothing but the call's own instructions and
\* leaves the skip-label counter as it is.
C29_TrampolinePoint ==
    [][EmitStep =>
          /\ lastTrampolineAddr' = IF AtTrampolinePoint THEN insnsLen ELSE lastTrampolineAddr
          /\ (AtTrampolinePoint /\ DOMAIN fixUps = {}) =>
                 /\ trampolineIdx' = trampolineIdx
                 /\ insnsLen' - insnsLen = callerLen' - callerLen
                 /\ \A i \in DOMAIN meta' \ DOMAIN meta : meta'[i].syn = "caller"
          /\ (AtTrampolinePoint /\ DOMAIN fixUps # {}) => trampolineIdx' = trampolineIdx + 1
          /\ ~AtTrampolinePoint =>
                 /\ trampolineIdx' = trampolineIdx
                 /\ insnsLen' - insnsLen = callerLen' - callerLen]_vars

\* A trampoline point was taken at index 2 with nothing outstanding: it is
\* recorded, no trampoline has ever been written, the program holds the
\* caller's instructions only.
C29_Witness ==
    /\ trampolinesEnabled /\ trampolineStride = 1
    /\ insnsLen = 3 /\ callerLen = 3 /\ lastTrampolineAddr = 2
    /\ trampolineIdx = 0 /\ DOMAIN meta = {}

\* The stride was reached before the second half of a LoadImm64 pair and no
\* trampoline point was taken there.
C29_WitnessSecondHalf ==
    /\ pt2Deferred /\ trampolineStride = 1 /\ trampolinesEnabled
    /\ insnsLen = 2 /\ lastTrampolineAddr = 0
    /\ OpCode(InsnAt(Blk, 1)) = LoadImm64Pt2

\* Trampolines are disabled and the stride has been passed: no point is taken.
C29_WitnessDisabled ==
    /\ ~trampolinesEnabled /\ trampolineStride = 1
    /\ insnsLen = 3 /\ lastTrampolineAddr = 0 /\ DOMAIN fixUps # {}

\* C30: with trampolines enabled, the default stride, forward jumps only and at
\* most trampolineHeadroom labels outstanding at every trampoline point, every
\* offset computed while the program is built (at the caller's binds and at the
\* binds of relays and skip labels inside trampolines) is patched and lies in
\* 0 .. 32767, and no error is latched.
C30_HeadroomSuffices ==
    (/\ trampolinesEnabled /\ trampolineStride = TrampolineStrideDefault
     /\ ~backRef /\ maxOut <= trampolineHeadroom) =>
        /\ Building => \A e \in fixLog : e.ok /\ 0 <= e.offset /\ e.offset <= MaxInt16
        /\ deferredErr = NoErr

\* Two trampolines were written at the default stride, each with
\* trampolineHeadroom labels outstanding and the first one instruction late for
\* a LoadImm64 pair: a caller jump reaches its relay with offset 32767, relays
\* of the first trampoline were patched to relays of the second, and the caller
\* then bound the labels.
C30_Witness ==
    /\ trampolinesEnabled /\ trampolineStride = TrampolineStrideDefault /\ ~backRef
    /\ maxOut = trampolineHeadroom /\ trampolineIdx = 2 /\ pt2Deferred
    /\ deferredErr = NoErr
    /\ \E e \in fixLog : e.idx \in CallerJumps /\ e.offset = MaxInt16
    /\ \E e \in fixLog : e.idx \in RelaysOf(e.label) /\ e.target \in RelaysOf(e.label)
    /\ \E e \in fixLog :
          /\ e.idx \in RelaysOf(e.label)
          /\ e.target \in SeqToSet(MapGet(callerBinds, e.label, <<>>))

\* ------------------------------------------------------ claims C31 .. C40

\* The step is the caller's jump to label l, conditional or not, and the jump
\* was elided: the call appended none of the caller's instructions.
ElidedJumpStep(l) ==
    /\ emitCalls' = emitCalls + 1
    /\ callerLen' = callerLen
    /\ \E c \in {<<JumpA, 0, 0>>, <<JumpEq64, R1, R0>>} :
          Blk' = AddWithOffsetFixup(Blk, c[1], c[2], c[3], l, 0)

\* The labels that only elided jumps of the caller name.
OnlyElided ==
    {e.tgt : e \in {x \in emitLog : x.syn = "caller" /\ x.tgt # NoLabel /\ ~x.appended}}
        \ AppendedTargets

\* C31: a caller's jump that is elided as unreachable registers no fix-up (the
\* fix-ups the call adds, if any, are those of a trampoline's relays), leaves the
\* set of jump targets in use as it was and does not count in NumJumps (which
\* grows by the relays only; with no trampoline written the fix-ups and
\* NumJumps stay as they were); a label that only elided jumps name is not in
\* use and has no fix-up, no error latched or returned by Assemble() names it,
\* and a position after a JumpA or Exit that carries only such labels is not
\* reachable.
C31_ElidedJumpLeavesNoTrace ==
    /\ [][\A l \in Labels :
             ElidedJumpStep(l) =>
                 /\ inUseJumpTargets' = inUseJumpTargets
                 /\ (l \in inUseJumpTargets') = (l \in inUseJumpTargets)
                 /\ CallerJumps' = CallerJumps
                 /\ \A m \in DOMAIN fixUps' :
                       \A i \in SeqToSet(fixUps'[m]) :
                           \/ i \in SeqToSet(MapGet(fixUps, m, <<>>))
                           \/ meta'[i].syn = "relay"
                 /\ NumJumps' - NumJumps = insnsLen' - insnsLen
                 /\ trampolineIdx' = trampolineIdx =>
                        fixUps' = fixUps /\ NumJumps' = NumJumps]_vars
    /\ [](\A l \in OnlyElided :
             /\ l \notin inUseJumpTargets
             /\ l \notin DOMAIN fixUps
             /\ deferredErr # NoErr => deferredErr.label # l
             /\ Failed => result.err.label # l
             /\ (/\ insnsLen > 0
                 /\ EndsFallThrough(OpCode(InsnAt(Blk, insnsLen - 1)))
                 /\ SeqToSet(MapGet(insnIdxToLabels, insnsLen, <<>>)) \subseteq OnlyElided)
                => ~NextInsnReachable(Blk))

\* Assemble() returned the program after the caller's jump to a label was elided,
\* the caller bound that label at the position and the next instruction was
\* elided there too, the label not being in use.
C31_Witness ==
    /\ Succeeded
    /\ \E l \in OnlyElided :
          /\ l \in DOMAIN callerBinds
          /\ \E e \in emitLog : ~e.appended /\ e.hadLabels /\ ~e.inUseHere /\ e.tgt = NoLabel
          /\ NumJumps = 1 /\ insnsLen = 1

\* The caller's jump was elided right after a trampoline whose relay was written:
\* the label the jump names has no fix-up, the relayed one has.
C31_WitnessAfterTrampoline ==
    \E l \in OnlyElided :
        /\ trampolineIdx = 2
        /\ lastTrampolineAddr = insnsLen - 1
        /\ insnsLen - 1 \in DOMAIN meta /\ meta[insnsLen - 1].syn = "relay"
        /\ DOMAIN fixUps = {meta[insnsLen - 1].tgt}

\* The indices of the instructions with a fix-up pending.
PendingIdx == UNION {SeqToSet(fixUps[l]) : l \in DOMAIN fixUps}

\* C32: whatever a call does, an instruction already in the sequence keeps its
\* opcode, registers and immediate (only bytes 2-3 can change), and it changes
\* at all only if it has a fix-up pending when the call starts; an instruction
\* whose fix-up was patched and cleared is patched once only and keeps the
\* offset written then, whoever binds the label again.
C32_PatchTouchesOffsetOnly ==
    /\ [][\A i \in 0..(insnsLen - 1) :
             /\ SameButOffset(InsnAt(Blk', i), InsnAt(Blk, i))
             /\ i \notin PendingIdx => InsnAt(Blk', i) = InsnAt(Blk, i)]_vars
    /\ [](\A e \in fixLog :
             e.ok =>
                 /\ Off(InsnAt(Blk, e.idx)) = e.offset
                 /\ OpCode(InsnAt(Blk, e.idx)) \in {JumpA, JumpEq64}
                 /\ Imm(InsnAt(Blk, e.idx)) = 0
                 /\ \A e2 \in fixLog : (e2.ok /\ e2.idx = e.idx) => e2 = e)

\* A conditional jump of the caller was patched to a relay; since then the same
\* label was bound again further on by the caller, the fix-ups pending then
\* patched, and the jump still holds its registers and the first offset.
C32_Witness ==
    \E e \in fixLog :
        /\ e.ok /\ e.idx \in CallerJumps /\ e.target \in RelaysOf(e.label)
        /\ InsnAt(Blk, e.idx) = MakeInsn(JumpEq64, R1, R0, e.offset, 0)
        /\ e.offset > 0
        /\ \E e2 \in fixLog :
              /\ e2.ok /\ e2.label = e.label /\ e2.target > e.target
              /\ e2.target \in SeqToSet(MapGet(callerBinds, e.label, <<>>))

\* The indices of the jumps trampolines wrote.
SyntheticJumps == {i \in DOMAIN meta : meta[i].syn # "caller"}
\* The indices of the instructions that are not a trampoline's.
OwnIdx == {i \in 0..(insnsLen - 1) : i \notin SyntheticJumps}
\* The k-th instruction (from 0) the caller had appended, as it passed it.
CallerInsnAt(k) == MapGet(callerInsns, k, NoOpInsn)

\* C33: no call ever shortens the instruction sequence or changes the opcode,
\* registers or immediate of an instruction in it, ReserveInstructionCapacity
\* leaves the sequence exactly as it was, and the instructions that are not a
\* trampoline's are, in order, the caller's instructions that were not elided,
\* in call order.
C33_AppendOnly ==
    /\ [][/\ insnsLen' >= insnsLen
          /\ \A i \in 0..(insnsLen - 1) :
                SameButOffset(InsnAt(Blk', i), InsnAt(Blk, i))
          /\ (lastCall' # lastCall) =>
                 /\ insnsLen' = insnsLen
                 /\ \A i \in 0..(insnsLen - 1) : InsnAt(Blk', i) = InsnAt(Blk, i)]_vars
    /\ [](/\ Cardinality(OwnIdx) = callerLen
          /\ \A i \in OwnIdx :
                SameButOffset(InsnAt(Blk, i),
                              CallerInsnAt(Cardinality({j \in OwnIdx : j < i}))))

\* ReserveInstructionCapacity copied a sequence of five instructions: a
\* conditional jump, a trampoline's two jumps, and two more instructions of the
\* caller, a Call and an Exit, in call order.
C33_Witness ==
    /\ lastCall = [op |-> "ReserveInstructionCapacity", n |-> 8, copied |-> TRUE]
    /\ insnsLen = 5 /\ callerLen = 3
    /\ SyntheticJumps = {1, 2}
    /\ OpCode(InsnAt(Blk, 0)) = JumpEq64
    /\ OpCode(InsnAt(Blk, 3)) = Call /\ CallerInsnAt(1) = InsnAt(Blk, 3)
    /\ OpCode(InsnAt(Blk, 4)) = Exit /\ CallerInsnAt(2) = InsnAt(Blk, 4)

\* C34: while the program is being built every offset applyFixUps has computed is
\* that of a fix-up behind the position its label was bound at, so it is >= 0,
\* and it failed only for being above MaxInt16; the error latched, if any, is
\* such a range error; hence a missing label, an offset of -1 and an offset
\* below MinInt16 are reported by Assemble() only, with no error latched.
C34_BindTimeErrors ==
    /\ Building =>
          \A e \in fixLog :
              /\ e.idx < e.target /\ e.offset >= 0
              /\ ~e.ok => e.offset > MaxInt16
    /\ deferredErr # NoErr =>
          /\ deferredErr.cause.kind = "range"
          /\ deferredErr.cause.offset > MaxInt16
          /\ deferredErr.cause.label = deferredErr.label
    /\ (/\ Failed
        /\ \/ result.err.kind \in {"missing", "same"}
           \/ result.err.kind = "range" /\ result.err.offset < MinInt16)
       => deferredErr = NoErr

\* A bind latched an offset of MaxInt16 + 1, and Assemble() returned that
\* error.
C34_Witness ==
    /\ Failed
    /\ result.err = deferredErr
    /\ deferredErr.cause.kind = "range" /\ deferredErr.cause.offset = MaxInt16 + 1

\* Assemble() reported an offset of -1.
C34_WitnessSame == Failed /\ result.err.kind = "same" /\ result.err.offset = -1
\* Assemble() reported an offset below MinInt16.
C34_WitnessBelow == Failed /\ result.err.kind = "range" /\ result.err.offset = MinInt16 - 1
\* Assemble() reported a missing label.
C34_WitnessMissing == Failed /\ result.err.kind = "missing"

\* The jumps of kind syn ("skip" or "relay") that the step wrote.
WrittenNow(syn) == {i \in DOMAIN meta' \ DOMAIN meta : meta'[i].syn = syn}
\* The step appended both halves of a LoadImm64 / LoadMapFD pair.
PairStep ==
    /\ callerLen' = callerLen + 2
    /\ OpCode(InsnAt(Blk', insnsLen' - 1)) = LoadImm64Pt2

\* C35 as stated: a builder call, n labels being outstanding as it starts,
\* writes at most one trampoline and appends at most n + 2 instructions.
C35_Original ==
    [][EmitStep =>
          /\ trampolineIdx' <= trampolineIdx + 1
          /\ insnsLen' - insnsLen <= Cardinality(DOMAIN fixUps) + 2]_vars

\* C35: a builder call, n labels being outstanding as it starts, writes at most
\* one trampoline, of one skip jump and at most n relays, none of which takes a
\* trampoline point of its own; with its own instruction it appends at most
\* n + 2 instructions, and n + 3 when it is LoadImm64 or LoadMapFD, which append
\* two of their own; this at a stride of one and with labels that are never
\* bound as well.
C35_OneTrampolinePerCall ==
    [][EmitStep =>
          LET n == Cardinality(DOMAIN fixUps)
              own == callerLen' - callerLen
          IN  /\ trampolineIdx' <= trampolineIdx + 1
              /\ lastTrampolineAddr' \in {lastTrampolineAddr, insnsLen}
              /\ Cardinality(WrittenNow("skip")) <= 1
              /\ Cardinality(WrittenNow("relay")) <= n
              /\ trampolineIdx' = trampolineIdx =>
                     WrittenNow("skip") \cup WrittenNow("relay") = {}
              /\ own <= (IF PairStep THEN 2 ELSE 1)
              /\ insnsLen' - insnsLen <= n + 1 + own
              /\ insnsLen' - insnsLen
                     = Cardinality(WrittenNow("skip") \cup WrittenNow("relay")) + own]_vars

\* At a stride of one, two labels outstanding and never bound, a LoadImm64 call
\* wrote a trampoline of a skip jump and two relays at index 4 and then both
\* its halves: five instructions in one call.
C35_Witness ==
    /\ trampolineStride = 1 /\ DOMAIN callerBinds = {}
    /\ insnsLen = 9 /\ lastTrampolineAddr = 4
    /\ 4 \in DOMAIN meta /\ meta[4].syn = "skip"
    /\ 5 \in DOMAIN meta /\ meta[5].syn = "relay"
    /\ 6 \in DOMAIN meta /\ meta[6].syn = "relay"
    /\ OpCode(InsnAt(Blk, 7)) = LoadImm64
    /\ OpCode(InsnAt(Blk, 8)) = LoadImm64Pt2
    /\ Cardinality(DOMAIN fixUps) = 2

\* At a stride of one a third consecutive call wrote a third trampoline while
\* the caller's one label stayed unbound.
C35_WitnessPermanent ==
    /\ trampolineStride = 1 /\ DOMAIN callerBinds = {}
    /\ trampolineIdx = 2 /\ emitCalls = 3
    /\ Cardinality(RelaysOf(1)) = 2
    /\ DOMAIN fixUps = {1}

\* insn with its offset field cleared.
ZeroOffset(insn) == [insn EXCEPT ![3] = 0, ![4] = 0]
\* The indices of the instructions of b that no trampoline wrote.
OwnIdxOf(b) ==
    {i \in 0..(b.insnsLen - 1) : ~(i \in DOMAIN b.meta /\ b.meta[i].syn # "caller")}
\* The instructions of b that no trampoline wrote, in order, offsets aside.
CallerOutput(b) ==
    LET own == OwnIdxOf(b)
    IN  [k \in 1..Cardinality(own) |->
            ZeroOffset(InsnAt(b, CHOOSE i \in own : Cardinality({j \in own : j < i}) = k - 1))]

\* C36: given the same calls, the Block with trampolines enabled, at a stride
\* of one, two or the default, and the Block with trampolines disabled hold the
\* same caller instructions in the same order (opcode, registers and
\* immediate; jump offsets aside and the skip and relay jumps left out), while
\* the program is built and when Assemble() has been called: the same
\* instructions of the caller are elided in both.
C36_SameElisions ==
    /\ CallerOutput(Blk) = CallerOutput(twin)
    /\ callerLen = twin.callerLen
    /\ callerInsns = twin.callerInsns
    /\ twin.insnsLen = twin.callerLen

\* Assemble() returned a program in which the caller's instructions stand among
\* the jumps of two trampolines, one of the caller's instructions having been
\* elided, in the twin as well.
C36_Witness ==
    /\ Succeeded
    /\ trampolineIdx = 2 /\ twin.trampolineIdx = 0
    /\ insnsLen > twin.insnsLen /\ twin.insnsLen >= 2
    /\ \E e \in emitLog : e.syn = "caller" /\ ~e.appended
    /\ \E e \in twin.emitLog : ~e.appended

\* C37: every label with a fix-up outstanding is a jump target in use, the set
\* of jump targets in use never loses a member, every outstanding fix-up names
\* the index of an instruction in the sequence (a jump that took that label),
\* every index applyFixUps patched was one, and no relay jump a trampoline
\* emitted was elided.
C37_OutstandingAreInUse ==
    /\ [][inUseJumpTargets \subseteq inUseJumpTargets']_vars
    /\ [](/\ DOMAIN fixUps \subseteq inUseJumpTargets
          /\ \A l \in DOMAIN fixUps :
                /\ fixUps[l] # <<>>
                /\ \A k \in 1..Len(fixUps[l]) :
                      /\ 0 <= fixUps[l][k] /\ fixUps[l][k] < insnsLen
                      /\ fixUps[l][k] \in DOMAIN meta /\ meta[fixUps[l][k]].tgt = l
          /\ \A e \in fixLog : 0 <= e.idx /\ e.idx < insnsLen
          /\ \A e \in emitLog : e.syn = "relay" => e.appended /\ e.inUseHere)

\* Two labels are outstanding after a trampoline whose relays were appended
\* behind jumps that do not fall through, a third jump target in use has no
\* fix-up left, and an instruction of the caller was elided.
C37_Witness ==
    /\ Cardinality(DOMAIN fixUps) = 2
    /\ \E e \in emitLog : e.syn = "relay" /\ e.appended /\ e.lastOp = JumpA
    /\ \E l \in inUseJumpTargets : l \notin DOMAIN fixUps
    /\ \E e \in emitLog : e.syn = "caller" /\ ~e.appended

\* C38: after a successful Assemble() every jump that took a label, the caller's
\* or a trampoline's, lands (index + 1 + encoded offset) on an index from 0 to
\* len(insns): on an instruction of the program or on its end, never before the
\* program, beyond it or on the jump itself; it is the index applyFixUps found
\* the label bound at.
C38_JumpsLandInside ==
    Succeeded =>
        \A i \in DOMAIN meta :
            /\ 0 <= JumpTarget(i) /\ JumpTarget(i) <= insnsLen
            /\ JumpTarget(i) # i
            /\ \E e \in fixLog : e.ok /\ e.idx = i /\ e.target = JumpTarget(i)

\* Assemble() returned a program whose one jump spans MaxInt16 instructions and
\* lands on the end of the program.
C38_Witness ==
    /\ Succeeded
    /\ \E i \in DOMAIN meta :
          /\ Off(InsnAt(Blk, i)) = MaxInt16
          /\ JumpTarget(i) = insnsLen

\* Assemble() returned a program with a jump back over MaxInt16 instructions to
\* the first one.
C38_WitnessBackward ==
    /\ Succeeded
    /\ \E i \in DOMAIN meta : Off(InsnAt(Blk, i)) = MinInt16 /\ JumpTarget(i) = 0

\* The instructions of b whose class, the low three bits of the opcode, is
\* Jump64 or Jump32, and those that are one of the jumps the callers here emit.
JumpClassIdx(b) == {i \in DOMAIN b.insns : b.insns[i][1] % 8 \in {OpClassJump64, OpClassJump32}}
KnownJumpIdx(b) ==
    {i \in DOMAIN b.insns : b.insns[i][1] \in {JumpA, JumpEq64, JumpEq32, Call, Exit}}

\* C39: NumJumps is the number of instructions in the sequence whose class is
\* Jump64 or Jump32: the conditional jumps of either width, the unconditional
\* jumps, Call, Exit and the skip and relay jumps of the trampolines, each
\* counted when it is appended and not when it is elided; in the Block with
\* trampolines and in the one without.
C39_NumJumpsCountsJumpClass ==
    /\ NumJumps = Cardinality(JumpClassIdx(Blk))
    /\ JumpClassIdx(Blk) = KnownJumpIdx(Blk)
    /\ SyntheticJumps \subseteq JumpClassIdx(Blk)
    /\ twin.NumJumps = Cardinality(JumpClassIdx(twin))
    /\ NumJumps = twin.NumJumps + Cardinality(SyntheticJumps)

\* Seven jumps are counted in a program of seven instructions: a 32-bit
\* conditional jump, a Call and an Exit of the caller and the skip and relay
\* jumps of two trampolines; the twin counts three.
C39_Witness ==
    /\ NumJumps = 7 /\ insnsLen = 7 /\ twin.NumJumps = 3
    /\ InsnAt(Blk, 0)[1] = JumpEq32
    /\ InsnAt(Blk, 3)[1] = Call
    /\ InsnAt(Blk, 6)[1] = Exit
    /\ Cardinality(SyntheticJumps) = 4

\* One jump is counted in a program of three instructions, the pair of a
\* LoadImm64 and an Exit: the caller's jump after the Exit was elided.
C39_WitnessElided ==
    /\ NumJumps = 1 /\ insnsLen = 3 /\ emitCalls = 3
    /\ InsnAt(Blk, 2)[1] = Exit
    /\ \E e \in emitLog : ~e.appended /\ e.op \in {JumpA, JumpEq64, JumpEq32}

\* C40: every label in the label-to-index map is mapped to an index that is at
\* most len(insns) and whose list in the index-to-labels map names the label.
C40_BoundLabelsAreListed ==
    \A l \in DOMAIN labelToInsnIdx :
        /\ 0 <= labelToInsnIdx[l] /\ labelToInsnIdx[l] <= insnsLen
        /\ labelToInsnIdx[l] \in DOMAIN insnIdxToLabels
        /\ l \in SeqToSet(insnIdxToLabels[labelToInsnIdx[l]])

\* A label the caller bound twice is mapped to the end of the program, where it
\* bound it last, and still named at the older index as well.
C40_Witness ==
    \E l \in DOMAIN labelToInsnIdx, i \in DOMAIN insnIdxToLabels :
        /\ Len(MapGet(callerBinds, l, <<>>)) = 2
        /\ labelToInsnIdx[l] = insnsLen
        /\ i < insnsLen /\ l \in SeqToSet(insnIdxToLabels[i])
        /\ callerBinds[l] = <<i, insnsLen>>

\* Both labels of the caller are mapped to the same index, whose list names
\* both.
C40_WitnessShared ==
    /\ {1, 2} \subseteq DOMAIN labelToInsnIdx
    /\ labelToInsnIdx[1] = labelToInsnIdx[2]
    /\ Len(insnIdxToLabels[labelToInsnIdx[1]]) = 2

\* A label is named at the index of a trampoline's relay and mapped to the index
\* the caller bound it at later.
C40_WitnessRelay ==
    \E l \in DOMAIN callerBinds, i \in DOMAIN insnIdxToLabels :
        /\ i \in RelaysOf(l) /\ l \in SeqToSet(insnIdxToLabels[i])
        /\ l \in DOMAIN labelToInsnIdx /\ labelToInsnIdx[l] > i

\* A label the caller bound is named at no index and mapped to none: the
\* instruction at its position was elided.
C40_WitnessDropped ==
    \E l \in DOMAIN callerBinds :
        /\ l \notin DOMAIN labelToInsnIdx
        /\ \A i \in DOMAIN insnIdxToLabels : l \notin SeqToSet(insnIdxToLabels[i])

====
